---- MODULE Spec2Model ----
(***************************************************************************)
(* A model of yuno's live document projection:                             *)
(*   - the value codec (yuno/encoder.py),                                  *)
(*   - the map-like and sequence-like proxy objects (yuno/object.py,       *)
(*     yuno/objects/dict.py, yuno/objects/list.py) over a remote document  *)
(*     store reached through pymongo's update_one / replace_one /          *)
(*     delete_one / aggregate,                                             *)
(*   - the change-feed watcher (saki/watch.py; yuno/watch.py is the same   *)
(*     class under the project's later name),                              *)
(*   - the live-sync loop (YunoObject._watch_loop).                        *)
(*                                                                         *)
(* Field paths and keys are sequences of one-character strings so that the *)
(* string operations of the code (format, startswith, removeprefix, count, *)
(* split, strip) are computed character by character.                      *)
(*                                                                         *)
(* The handle passed along with every cast (collection= / previous=) only  *)
(* links a new proxy to its owner; it carries no data and is not state of  *)
(* the model.                                                              *)
(***************************************************************************)
EXTENDS Integers, Sequences, FiniteSets, TLC

VARIABLES
    remote,      \* the remote store: record id -> document (or NoRecord)
    local,       \* __storage__ of the record's proxy, nested proxies inside it
    result,      \* what the last operation did and returned to its caller
    feed,        \* the collection's change feed: sequence of change events
    realtime,    \* __realtime__ of each map-like proxy
    loop,        \* the live-sync thread of each map-like proxy
    callbacks,   \* __callbacks__ (class attribute: one dict for all proxies)
    stream,      \* the underlying pymongo ChangeStream of each watcher
    closed,      \* Watch.__closed__ of each watcher
    wstate,      \* Watch.__state__ (class attribute: one dict for all watchers)
    now,         \* time.time()
    hist,        \* history of the watchers: deliveries, errors, outcomes
    steps        \* number of operations made so far

vars == <<remote, local, result, feed, realtime, loop, callbacks,
          stream, closed, wstate, now, hist, steps>>

(***************************************************************************)
(* Strings                                                                 *)
(***************************************************************************)
Dot == "."

\* "{}.{}".format(field, name)
Format(field, name) == field \o <<Dot>> \o name

\* str.startswith
StartsWith(s, p) == Len(p) <= Len(s) /\ SubSeq(s, 1, Len(p)) = p

\* str.removeprefix
RemovePrefix(s, p) == IF StartsWith(s, p) THEN SubSeq(s, Len(p) + 1, Len(s)) ELSE s

\* str.count(".")
CountDots(s) == Cardinality({i \in 1..Len(s) : s[i] = Dot})

\* str.split("."): the segments between the dots, empty ones included
RECURSIVE SplitFrom(_, _, _)
SplitFrom(s, i, cur) ==
    IF i > Len(s) THEN <<cur>>
    ELSE IF s[i] = Dot THEN <<cur>> \o SplitFrom(s, i + 1, <<>>)
    ELSE SplitFrom(s, i + 1, Append(cur, s[i]))

Split(s) == SplitFrom(s, 1, <<>>)

\* key.split(".")[-1]
LastSegment(s) == LET segs == Split(s) IN segs[Len(segs)]

\* the letters the names of the model are written with, and their capitals
Lowers == <<"a", "b", "d", "h", "l", "n", "s">>
Uppers == <<"A", "B", "D", "H", "L", "N", "S">>

IsLower(c) == \E i \in 1..Len(Lowers) : Lowers[i] = c
IsUpper(c) == \E i \in 1..Len(Uppers) : Uppers[i] = c
UpperOf(c) == IF IsLower(c) THEN Uppers[CHOOSE i \in 1..Len(Lowers) : Lowers[i] = c] ELSE c
LowerOf(c) == IF IsUpper(c) THEN Lowers[CHOOSE i \in 1..Len(Uppers) : Uppers[i] = c] ELSE c

\* str.capitalize
Capitalize(w) == [i \in 1..Len(w) |-> IF i = 1 THEN UpperOf(w[i]) ELSE LowerOf(w[i])]

\* str.split(sep), sep one character
RECURSIVE SplitOn(_, _, _, _)
SplitOn(s, sep, i, cur) ==
    IF i > Len(s) THEN <<cur>>
    ELSE IF s[i] = sep THEN <<cur>> \o SplitOn(s, sep, i + 1, <<>>)
    ELSE SplitOn(s, sep, i + 1, Append(cur, s[i]))

\* the words of every piece, pieces split at the spaces
RECURSIVE Words(_, _)
Words(pieces, i) ==
    IF i > Len(pieces) THEN <<>>
    ELSE SplitOn(pieces[i], " ", 1, <<>>) \o Words(pieces, i + 1)

\* the words put together, every word but the first capitalized
RECURSIVE Joined(_, _)
Joined(words, i) ==
    IF i > Len(words) THEN <<>>
    ELSE (IF i > 1 THEN Capitalize(words[i]) ELSE words[i]) \o Joined(words, i + 1)

\* utils.string.toCamelCase
ToCamelCase(string) ==
    IF (\E i \in 1..Len(string) : IsUpper(string[i]))
       /\ (\A i \in 1..Len(string) : ~IsLower(string[i]))
    THEN string
    ELSE LET under == StartsWith(string, <<"_">>)
             split == SplitOn(string, "_", 1, <<>>)
             words == Words(IF under THEN Tail(split) ELSE split, 1)
         IN  (IF under THEN <<"_">> ELSE <<>>) \o Joined(words, 1)

\* str(i) and int(s) for the one-digit indexes of the model
Digits == <<"0", "1", "2", "3", "4", "5", "6", "7", "8", "9">>

IntToStr(i) == <<Digits[i + 1]>>

IsIndex(seg) == Len(seg) = 1 /\ \E d \in 1..Len(Digits) : Digits[d] = seg[1]

StrToInt(seg) == (CHOOSE d \in 1..Len(Digits) : Digits[d] = seg[1]) - 1

(***************************************************************************)
(* Values.  Every value is a record [t, v]: the tag is compared first.     *)
(*   int   : v is the integer                                              *)
(*   str   : v >= 0 is the decimal string of v, v = -1 a non-numeric one   *)
(*   none  : None                                                          *)
(*   list  : v is a sequence of values (a wire array / a plain list)       *)
(*   map   : v is a function key -> value (a wire document / a plain dict) *)
(*   ylist : a YunoList, v its __storage__                                 *)
(*   ydict : a YunoDict, v its __storage__                                 *)
(*   lazy  : an encoder.LazyObject, v the field it stands for              *)
(*   bool  : v is 1 for True, 0 for False                                  *)
(*   float : v is the number in tenths                                     *)
(*   int64 : a bson.Int64, v the integer                                   *)
(*   bytes, datetime, oid (bson.ObjectId), pattern (re.Pattern), dbref     *)
(*           (bson.DBRef), code (bson.Code): v names the value             *)
(*   binary: a bson.Binary, v = <<subtype, name of the data>>              *)
(* A proxy held in the storage of its owner is the same object the caller  *)
(* gets by reading the owner's key, so a nested proxy's storage is kept    *)
(* inside the owner's.                                                     *)
(***************************************************************************)
IntV(n) == [t |-> "int", v |-> n]
StrV(n) == [t |-> "str", v |-> n]
NoneV == [t |-> "none", v |-> 0]
ListV(s) == [t |-> "list", v |-> s]
MapV(f) == [t |-> "map", v |-> f]
YListV(s) == [t |-> "ylist", v |-> s]
YDictV(f) == [t |-> "ydict", v |-> f]
LazyV(k) == [t |-> "lazy", v |-> k]
BoolV(b) == [t |-> "bool", v |-> IF b THEN 1 ELSE 0]
Scalar(type, n) == [t |-> type, v |-> n]
BinaryV(subtype, n) == [t |-> "binary", v |-> <<subtype, n>>]
NoRecord == [t |-> "norecord", v |-> 0]
Err == [t |-> "err", v |-> 0]
Missing == [t |-> "missing", v |-> 0]
EmptyFn == [x \in {} |-> NoneV]

IsErr(x) == x.t = "err"

\* a function with key k bound to x / with key k removed
Bind(f, k, x) == [y \in DOMAIN f \cup {k} |-> IF y = k THEN x ELSE f[y]]
Unbind(f, k) == [y \in DOMAIN f \ {k} |-> f[y]]

\* list.pop(i), list.insert(i, x) on a sequence, 0-based i in range
SeqPop(s, i) == SubSeq(s, 1, i) \o SubSeq(s, i + 2, Len(s))
SeqInsert(s, i, x) == SubSeq(s, 1, i) \o <<x>> \o SubSeq(s, i + 1, Len(s))
SeqReverse(s) == [i \in 1..Len(s) |-> s[Len(s) + 1 - i]]

(***************************************************************************)
(* The value codec (yuno/encoder.py)                                       *)
(***************************************************************************)
\* YunoBSONEncoder.default: a proxy is replaced by its storage, primitives
\* pass, dicts and iterables are encoded element-wise, anything else (a
\* LazyObject) becomes its str()
\* the tags of BSON_ENCODABLE
Encodable == {"bool", "int", "int64", "float", "str", "bytes", "datetime", "pattern",
              "binary", "oid", "dbref", "code"}

\* _type(o) for the declared types other than int and str: the constructor
\* of the class called with the one argument o; Err when it raises.  The
\* classes of IMMUTABLES are called inside try / except, and on an exception
\* the last line of default calls the same constructor again.
Construct(type, o) ==
    CASE type = "bool" ->
            IF o.t = "bool" THEN o
            ELSE IF o.t \in {"int", "int64", "float"} THEN BoolV(o.v # 0)
            ELSE BoolV(o.t # "none")
      [] type = "float" ->
            IF o.t = "float" THEN o
            ELSE IF o.t \in {"int", "int64", "bool"} THEN Scalar("float", 10 * o.v)
            ELSE IF o.t = "str" /\ o.v >= 0 THEN Scalar("float", 10 * o.v)
            ELSE Err
      [] type = "int64" ->
            IF o.t \in {"int", "int64", "bool"} THEN Scalar("int64", o.v)
            ELSE IF o.t = "float" THEN Scalar("int64", o.v \div 10)
            ELSE IF o.t = "str" /\ o.v >= 0 THEN Scalar("int64", o.v)
            ELSE Err
      [] type = "bytes" ->
            IF o.t = "bytes" THEN o
            ELSE IF o.t = "binary" THEN Scalar("bytes", o.v[2])
            ELSE Err
      [] type = "binary" ->
            \* Binary(data, subtype=0): the subtype of o is not read
            IF o.t = "binary" THEN BinaryV(0, o.v[2])
            ELSE IF o.t = "bytes" THEN BinaryV(0, o.v)
            ELSE Err
      [] type = "oid" ->
            IF o.t = "oid" THEN o ELSE Err
      [] type = "code" ->
            IF o.t = "code" THEN o ELSE Err
      \* DBRef(collection) wants a str, datetime(year, month, day) wants
      \* integers, re.Pattern cannot be instantiated
      [] OTHER -> Err

RECURSIVE Enc(_)
Enc(o) ==
    CASE o.t \in Encodable \cup {"none"} -> o
      [] o.t \in {"list", "ylist"} -> ListV([i \in 1..Len(o.v) |-> Enc(o.v[i])])
      [] o.t \in {"map", "ydict"} -> MapV([k \in DOMAIN o.v |-> Enc(o.v[k])])
      [] OTHER -> StrV(-1)

\* YunoTypeEncoder.default(o, _type): Err when the cast raises
RECURSIVE Cast(_, _)
Cast(o, type) ==
    CASE o.t = "lazy" -> o
      [] type = "int" ->
            IF o.t = "int" THEN o
            ELSE IF o.t = "str" /\ o.v >= 0 THEN IntV(o.v)
            ELSE IF o.t \in {"bool", "int64"} THEN IntV(o.v)
            ELSE IF o.t = "float" THEN IntV(o.v \div 10)
            ELSE Err
      [] type = "str" ->
            IF o.t = "str" THEN o
            ELSE IF o.t \in {"int", "int64"} THEN StrV(o.v)
            ELSE StrV(-1)
      [] type \in (Encodable \ {"int", "str"}) -> Construct(type, o)
      [] o.t \in {"list", "ylist"} ->
            YListV([i \in 1..Len(o.v) |-> Cast(o.v[i], "any")])
      [] o.t \in {"map", "ydict"} ->
            YDictV([k \in DOMAIN o.v |-> Cast(o.v[k], "any")])
      [] OTHER -> o

(***************************************************************************)
(* The remote document store, as the calls of the code use it.  A document *)
(* is a wire map; a field path addresses into it segment by segment.       *)
(***************************************************************************)
\* an update path with an empty field name ("", ".k", "a..k") is refused by
\* the server with a write error
ValidPath(path) == \A i \in 1..Len(Split(path)) : Split(path)[i] # <<>>

\* the value at a path (aggregate / projection), Missing when absent
RECURSIVE GetIn(_, _)
GetIn(node, segs) ==
    IF segs = <<>> THEN node
    ELSE IF node.t = "map" THEN
        IF Head(segs) \in DOMAIN node.v THEN GetIn(node.v[Head(segs)], Tail(segs))
        ELSE Missing
    ELSE IF node.t = "list" THEN
        IF IsIndex(Head(segs)) /\ StrToInt(Head(segs)) < Len(node.v)
        THEN GetIn(node.v[StrToInt(Head(segs)) + 1], Tail(segs))
        ELSE Missing
    ELSE Missing

\* $set: intermediate documents are created, an array is indexed (and padded
\* with nulls), a path through a scalar is a write error
RECURSIVE SetIn(_, _, _)
SetIn(node, segs, val) ==
    LET h == Head(segs) IN
    IF node.t = "map" THEN
        LET child == IF h \in DOMAIN node.v THEN node.v[h] ELSE MapV(EmptyFn)
            new == IF Len(segs) = 1 THEN val ELSE SetIn(child, Tail(segs), val)
        IN  IF IsErr(new) THEN Err ELSE MapV(Bind(node.v, h, new))
    ELSE IF node.t = "list" /\ IsIndex(h) THEN
        LET i == StrToInt(h) + 1
            child == IF i <= Len(node.v) THEN node.v[i] ELSE MapV(EmptyFn)
            new == IF Len(segs) = 1 THEN val ELSE SetIn(child, Tail(segs), val)
        IN  IF IsErr(new) THEN Err
            ELSE ListV([j \in 1..(IF i > Len(node.v) THEN i ELSE Len(node.v)) |->
                          IF j = i THEN new
                          ELSE IF j <= Len(node.v) THEN node.v[j] ELSE NoneV])
    ELSE Err

\* $unset: removes the field when it is there
RECURSIVE UnsetIn(_, _)
UnsetIn(node, segs) ==
    LET h == Head(segs) IN
    IF node.t = "map" /\ h \in DOMAIN node.v THEN
        IF Len(segs) = 1 THEN MapV(Unbind(node.v, h))
        ELSE MapV(Bind(node.v, h, UnsetIn(node.v[h], Tail(segs))))
    ELSE node

\* every element equal to x removed from a sequence
RECURSIVE Without(_, _)
Without(s, x) ==
    IF s = <<>> THEN <<>>
    ELSE IF Head(s) = x THEN Without(Tail(s), x)
    ELSE <<Head(s)>> \o Without(Tail(s), x)

\* update_one({"_id": id}, {op: {path: arg}}) on a document: the document
\* after the update, or Err when the server refuses it
ApplyUpdate(doc, op, path, arg) ==
    IF ~ValidPath(path) THEN Err
    ELSE LET segs == Split(path)
             cur == GetIn(doc, segs)
         IN  CASE op = "$set" -> SetIn(doc, segs, arg)
               [] op = "$unset" -> UnsetIn(doc, segs)
               [] op = "$push" ->      \* arg: the sequence of elements pushed
                     IF cur.t = "missing" THEN SetIn(doc, segs, ListV(arg))
                     ELSE IF cur.t = "list" THEN SetIn(doc, segs, ListV(cur.v \o arg))
                     ELSE Err
               [] op = "$pull" ->      \* every matching element is removed
                     IF cur.t = "missing" THEN doc
                     ELSE IF cur.t = "list" THEN SetIn(doc, segs, ListV(Without(cur.v, arg)))
                     ELSE Err

(***************************************************************************)
(* The proxied record and its proxies                                      *)
(***************************************************************************)
Id == "r1"                 \* __id__ of the proxies
OtherId == "r2"            \* another record of the same collection
Ids == {Id, OtherId}

KN == <<"n">>              \* a field declared int
KS == <<"s">>              \* a field declared str
KL == <<"l">>              \* an undeclared field (holds a list)
KA == <<"a">>              \* the field of the nested map-like proxy
KH == <<"h">>              \* a field listed in __lazy__ of the record's class

Root == "root"             \* the YunoDict of the whole record, __field__ ""
Sub == "sub"               \* the YunoDict held at Root's key a, __field__ "a"
Dicts == {Root, Sub}

\* __field__ (set by __init__, stripped of dots)
Field(p) == IF p = Root THEN <<>> ELSE KA

\* __field__ of the YunoList held at Sub's key l
ListField == Format(KA, KL)

\* __annotations__.get(name, None) of the proxies' classes
Annot(k) == IF k = KN THEN "int" ELSE IF k = KS THEN "str" ELSE "any"

\* __lazy__ of the record's class
LazyFields == {KH}

\* the proxy object is reachable from the record's proxy
Exists(p) == p = Root \/ (KA \in DOMAIN local /\ local[KA].t = "ydict")

\* __storage__ of a map-like proxy, and the record's storage with it replaced
DictSto(p) == IF p = Root THEN local ELSE local[KA].v
WithDictSto(p, sto) == IF p = Root THEN sto ELSE [local EXCEPT ![KA] = YDictV(sto)]

ListExists == Exists(Sub) /\ KL \in DOMAIN DictSto(Sub) /\ DictSto(Sub)[KL].t = "ylist"
ListSto == local[KA].v[KL].v
WithListSto(sto) == [local EXCEPT ![KA] = YDictV([@.v EXCEPT ![KL] = YListV(sto)])]

\* the remote value at the proxy's path
RemoteAt(path) ==
    IF remote[Id].t = "norecord" THEN Missing ELSE GetIn(remote[Id], Split(path))

\* the remote sub-tree a proxy mirrors ("" is the whole record)
RemoteOf(field) ==
    IF remote[Id].t = "norecord" THEN Missing
    ELSE IF field = <<>> THEN remote[Id] ELSE GetIn(remote[Id], Split(field))

(***************************************************************************)
(* Change events of the collection.  The server appends one for every      *)
(* write that changes a record while a change stream is open.              *)
(***************************************************************************)
MaxFeed == 3

Event(kind, id, updated, removed) ==
    [kind |-> kind, id |-> id, updated |-> updated, removed |-> removed]

\* the threads that run _watch_loop: loop[p] is the first thread of proxy p,
\* loop[Twin(p)] a second one, started while the first is still alive
Twin(p) == IF p = Root THEN "root2" ELSE "sub2"

Threads == Dicts \cup {Twin(p) : p \in Dicts}

ProxyOf(t) == IF t \in Dicts THEN t ELSE CHOOSE p \in Dicts : Twin(p) = t

\* the thread has been started and has not ended
Alive(t) == loop[t].st \in {"starting", "running", "calling"}

\* the place of the next thread of proxy p
FreeSlot(p) == IF Alive(p) THEN Twin(p) ELSE p

\* threading.Thread(target=self._watch_loop, daemon=True).start()
Spawn(p) == [loop EXCEPT ![FreeSlot(p)].st = "starting", ![FreeSlot(p)].saw = "none"]

Watching == \E t \in Threads : Alive(t)

CanEmit == Watching => Len(feed) < MaxFeed

Emit(ev) == IF Watching THEN Append(feed, ev) ELSE feed

\* the event of update_one with one operator on one path
UpdateEvent(op, path, arg, doc) ==
    IF op = "$unset" THEN Event("update", Id, <<>>, <<path>>)
    ELSE Event("update", Id, <<<<path, GetIn(doc, Split(path))>>>>, <<>>)

(***************************************************************************)
(* Outcome of an operation: what it raised or returned, and how many       *)
(* remote reads and acknowledged remote writes it made.                    *)
(***************************************************************************)
\* `clean` tells that no operation so far has raised.
\* `after` is the value written when the operation immediately follows a
\* successful key write of the key it concerns (the key read, or the key that
\* holds the sequence-like proxy operated on)
AfterWrite(op, p, k) ==
    IF /\ result.op = "setitem" /\ result.status = "ok"
       /\ \/ op = "getitem" /\ result.proxy = p /\ result.key = k
          \/ p = "lst" /\ result.proxy = "sub" /\ result.key = <<"l">>
    THEN result.arg ELSE Missing

Res(op, p, k, arg, status, value, reads, writes) ==
    [op |-> op, proxy |-> p, key |-> k, arg |-> arg, status |-> status,
     value |-> value, reads |-> reads, writes |-> writes,
     after |-> AfterWrite(op, p, k),
     clean |-> result.clean /\ status = "ok"]

\* collection.update_one({"_id": __id__}, {op: {path: arg}}): TRUE when the
\* server acknowledges, FALSE when the call raises.  The update is parsed
\* (and its path refused) before any record is matched; a record that is
\* gone matches nothing: acknowledged, nothing written.
UpdateOne(op, path, arg, ok) ==
    IF ~ok \/ ~ValidPath(path) THEN FALSE
    ELSE IF remote[Id].t = "norecord" THEN TRUE
    ELSE ~IsErr(ApplyUpdate(remote[Id], op, path, arg))

\* the store and the feed after the call
AfterUpdate(op, path, arg, ok) ==
    IF UpdateOne(op, path, arg, ok) /\ remote[Id].t # "norecord"
       /\ ApplyUpdate(remote[Id], op, path, arg) # remote[Id]
    THEN /\ remote' = [remote EXCEPT ![Id] = ApplyUpdate(remote[Id], op, path, arg)]
         /\ feed' = Emit(UpdateEvent(op, path, arg, ApplyUpdate(remote[Id], op, path, arg)))
    ELSE UNCHANGED <<remote, feed>>

\* collection.replace_one({"_id": __id__}, doc, upsert)
AfterReplace(doc, upsert, ok) ==
    IF ok /\ (remote[Id].t # "norecord" \/ upsert) /\ remote[Id] # doc
    THEN /\ remote' = [remote EXCEPT ![Id] = doc]
         /\ feed' = Emit(Event(IF remote[Id].t = "norecord" THEN "insert" ELSE "replace",
                               Id, <<>>, <<>>))
    ELSE UNCHANGED <<remote, feed>>

\* collection.delete_one({"_id": __id__})
AfterDelete(ok) ==
    IF ok /\ remote[Id].t # "norecord"
    THEN /\ remote' = [remote EXCEPT ![Id] = NoRecord]
         /\ feed' = Emit(Event("delete", Id, <<>>, <<>>))
    ELSE UNCHANGED <<remote, feed>>

(***************************************************************************)
(* Map-like proxy: YunoObject / YunoDict                                   *)
(***************************************************************************)
LiveVars == <<realtime, loop, callbacks>>
WatchVars == <<stream, closed, wstate, now, hist>>

\* __lazy_fetch__: the aggregate projecting one key of the proxy's sub-tree;
\* Err when it raises (no record, $replaceRoot on a missing sub-tree, or the
\* key absent from the projected document)
LazyFetch(p, k) ==
    LET tree == RemoteOf(Field(p)) IN
    IF tree.t # "map" THEN Err
    ELSE IF k \notin DOMAIN tree.v THEN Err
    ELSE tree.v[k]

\* a variant that asks the remote store on every read
GetItemRefetch(p, k, ok) ==
    /\ Exists(p)
    /\ IF k \notin DOMAIN DictSto(p)
       THEN result' = Res("getitem", p, k, NoneV, "KeyError", NoneV, 0, 0)
       ELSE IF ~ok \/ IsErr(LazyFetch(p, k)) \/ IsErr(Cast(LazyFetch(p, k), Annot(k)))
       THEN result' = Res("getitem", p, k, NoneV, "Error", NoneV, 1, 0)
       ELSE result' = Res("getitem", p, k, NoneV, "ok", Cast(LazyFetch(p, k), Annot(k)), 1, 0)
    /\ UNCHANGED <<remote, local, feed>>
    /\ UNCHANGED LiveVars /\ UNCHANGED WatchVars

\* a variant that returns the fetched value without storing it
GetItemNoStore(p, k, ok) ==
    /\ Exists(p)
    /\ IF k \notin DOMAIN DictSto(p)
       THEN result' = Res("getitem", p, k, NoneV, "KeyError", NoneV, 0, 0)
       ELSE IF DictSto(p)[k].t # "lazy"
       THEN result' = Res("getitem", p, k, NoneV, "ok", DictSto(p)[k], 0, 0)
       ELSE IF ~ok \/ IsErr(LazyFetch(p, k)) \/ IsErr(Cast(LazyFetch(p, k), Annot(k)))
       THEN result' = Res("getitem", p, k, NoneV, "Error", NoneV, 1, 0)
       ELSE result' = Res("getitem", p, k, NoneV, "ok", Cast(LazyFetch(p, k), Annot(k)), 1, 0)
    /\ UNCHANGED <<remote, local, feed>>
    /\ UNCHANGED LiveVars /\ UNCHANGED WatchVars

\* __getitem__ / __getattribute__ / get: a stored value is returned as it is;
\* a LazyObject is fetched, cast, stored and returned
GetItem(p, k, ok) ==
    /\ Exists(p)
    /\ IF k \notin DOMAIN DictSto(p)
       THEN /\ result' = Res("getitem", p, k, NoneV, "KeyError", NoneV, 0, 0)
            /\ UNCHANGED local
       ELSE IF DictSto(p)[k].t # "lazy"
       THEN /\ result' = Res("getitem", p, k, NoneV, "ok", DictSto(p)[k], 0, 0)
            /\ UNCHANGED local
       ELSE IF ~ok \/ IsErr(LazyFetch(p, k)) \/ IsErr(Cast(LazyFetch(p, k), Annot(k)))
       THEN /\ result' = Res("getitem", p, k, NoneV, "Error", NoneV, 1, 0)
            /\ UNCHANGED local
       ELSE /\ result' = Res("getitem", p, k, NoneV, "ok", Cast(LazyFetch(p, k), Annot(k)), 1, 0)
            /\ local' = WithDictSto(p, Bind(DictSto(p), k, Cast(LazyFetch(p, k), Annot(k))))
    /\ UNCHANGED <<remote, feed>>
    /\ UNCHANGED LiveVars /\ UNCHANGED WatchVars

\* a variant that stores the value before the remote write is acknowledged
SetItemLocalFirst(p, k, v, ok) ==
    /\ Exists(p)
    /\ CanEmit
    /\ LET value == Cast(v, Annot(k))
           path == Format(Field(p), k)
       IN  IF IsErr(value)
           THEN /\ result' = Res("setitem", p, k, v, "CastError", NoneV, 0, 0)
                /\ UNCHANGED <<remote, local, feed>>
           ELSE /\ local' = WithDictSto(p, Bind(DictSto(p), k, value))
                /\ AfterUpdate("$set", path, Enc(value), ok)
                /\ result' = Res("setitem", p, k, v,
                                 IF UpdateOne("$set", path, Enc(value), ok)
                                 THEN "ok" ELSE "RemoteError", value, 0,
                                 IF UpdateOne("$set", path, Enc(value), ok) THEN 1 ELSE 0)
    /\ UNCHANGED LiveVars /\ UNCHANGED WatchVars

\* __setitem__(name, value) / __setattr__(name, value): cast, $set on
\* "{field}.{name}", then the local store
SetItem(p, k, v, ok) ==
    /\ Exists(p)
    /\ CanEmit
    /\ LET value == Cast(v, Annot(k))
           path == Format(Field(p), k)
       IN  IF IsErr(value)
           THEN /\ result' = Res("setitem", p, k, v, "CastError", NoneV, 0, 0)
                /\ UNCHANGED <<remote, local, feed>>
           ELSE IF ~UpdateOne("$set", path, Enc(value), ok)
           THEN /\ result' = Res("setitem", p, k, v, "RemoteError", NoneV, 0, 0)
                /\ UNCHANGED <<remote, local, feed>>
           ELSE /\ AfterUpdate("$set", path, Enc(value), ok)
                /\ local' = WithDictSto(p, Bind(DictSto(p), k, value))
                /\ result' = Res("setitem", p, k, v, "ok", value, 0, 1)
    /\ UNCHANGED LiveVars /\ UNCHANGED WatchVars

\* __delitem__(name) / __delattr__(name): $unset on "{field}.{name}", then the
\* local delete (which raises KeyError for a key that is not stored)
DelItem(p, k, ok) ==
    /\ Exists(p)
    /\ CanEmit
    /\ LET path == Format(Field(p), k) IN
       IF ~UpdateOne("$unset", path, NoneV, ok)
       THEN /\ result' = Res("delitem", p, k, NoneV, "RemoteError", NoneV, 0, 0)
            /\ UNCHANGED <<remote, local, feed>>
       ELSE /\ AfterUpdate("$unset", path, NoneV, ok)
            /\ IF k \in DOMAIN DictSto(p)
               THEN /\ local' = WithDictSto(p, Unbind(DictSto(p), k))
                    /\ result' = Res("delitem", p, k, NoneV, "ok", NoneV, 0, 1)
               ELSE /\ UNCHANGED local
                    /\ result' = Res("delitem", p, k, NoneV, "KeyError", NoneV, 0, 1)
    /\ UNCHANGED LiveVars /\ UNCHANGED WatchVars

\* the remote write of a structural mutation of a map-like proxy: the whole
\* record is replaced for the record's proxy, the sub-tree is $set otherwise
StoreCopied(p, copied, upsert, ok) ==
    IF p = Root THEN AfterReplace(Enc(MapV(copied)), upsert, ok)
    ELSE AfterUpdate("$set", Field(p), Enc(MapV(copied)), ok)

StoreAcked(p, copied, ok) ==
    IF p = Root THEN ok ELSE UpdateOne("$set", Field(p), Enc(MapV(copied)), ok)

\* clear()
Clear(p, ok) ==
    /\ Exists(p)
    /\ CanEmit
    /\ LET acked == IF p = Root THEN ok
                    ELSE UpdateOne("$set", Field(p), MapV(EmptyFn), ok)
       IN  IF ~acked
           THEN /\ result' = Res("clear", p, <<>>, NoneV, "RemoteError", NoneV, 0, 0)
                /\ UNCHANGED <<remote, local, feed>>
           ELSE /\ IF p = Root THEN AfterDelete(ok)
                   ELSE AfterUpdate("$set", Field(p), MapV(EmptyFn), ok)
                /\ local' = WithDictSto(p, EmptyFn)
                /\ result' = Res("clear", p, <<>>, NoneV, "ok", NoneV, 0, 1)
    /\ UNCHANGED LiveVars /\ UNCHANGED WatchVars

\* the common tail of pop / popitem / setdefault / update: write the copy,
\* then super().__setattr__("__storage__", copied)
Commit(op, p, k, copied, upsert, value, ok) ==
    IF ~StoreAcked(p, copied, ok)
    THEN /\ result' = Res(op, p, k, NoneV, "RemoteError", NoneV, 0, 0)
         /\ UNCHANGED <<remote, local, feed>>
    ELSE /\ StoreCopied(p, copied, upsert, ok)
         /\ local' = WithDictSto(p, copied)
         /\ result' = Res(op, p, k, NoneV, "ok", value, 0, 1)

\* pop(key[, default])
Pop(p, k, hasDefault, default, ok) ==
    /\ Exists(p)
    /\ CanEmit
    /\ IF k \notin DOMAIN DictSto(p) /\ ~hasDefault
       THEN /\ result' = Res("pop", p, k, NoneV, "KeyError", NoneV, 0, 0)
            /\ UNCHANGED <<remote, local, feed>>
       ELSE Commit("pop", p, k, Unbind(DictSto(p), k), FALSE,
                   IF k \in DOMAIN DictSto(p) THEN DictSto(p)[k] ELSE default, ok)
    /\ UNCHANGED LiveVars /\ UNCHANGED WatchVars

\* popitem(): the item dict.popitem() picks (the last inserted on python >=
\* 3.7, any item before)
PopItem(p, k, ok) ==
    /\ Exists(p)
    /\ CanEmit
    /\ k \in DOMAIN DictSto(p)
    /\ Commit("popitem", p, k, Unbind(DictSto(p), k), p = Root, DictSto(p)[k], ok)
    /\ UNCHANGED LiveVars /\ UNCHANGED WatchVars

\* setdefault(key, default)
SetDefault(p, k, default, ok) ==
    /\ Exists(p)
    /\ CanEmit
    /\ Commit("setdefault", p, k,
              IF k \in DOMAIN DictSto(p) THEN DictSto(p) ELSE Bind(DictSto(p), k, default),
              FALSE,
              IF k \in DOMAIN DictSto(p) THEN DictSto(p)[k] ELSE default, ok)
    /\ UNCHANGED LiveVars /\ UNCHANGED WatchVars

\* update({key: value})
Update(p, k, v, ok) ==
    /\ Exists(p)
    /\ CanEmit
    /\ Commit("update", p, k, Bind(DictSto(p), k, v), p = Root, NoneV, ok)
    /\ UNCHANGED LiveVars /\ UNCHANGED WatchVars

\* to_dict(exclude, camelCase): the excluded keys are popped from the storage
\* itself, then the storage, or a new dict with the keys in camel case, is
\* returned (of two keys with the same camel case one is kept)
ToDict(p, exclude, camelCase) ==
    /\ Exists(p)
    /\ LET data == [k \in DOMAIN DictSto(p) \ exclude |-> DictSto(p)[k]]
           camel == [c \in {ToCamelCase(k) : k \in DOMAIN data} |->
                       data[CHOOSE k \in DOMAIN data : ToCamelCase(k) = c]]
       IN  /\ local' = WithDictSto(p, data)
           /\ result' = Res("to_dict", p, <<>>, NoneV, "ok",
                            MapV(IF camelCase THEN camel ELSE data), 0, 0)
    /\ UNCHANGED <<remote, feed>>
    /\ UNCHANGED LiveVars /\ UNCHANGED WatchVars

(***************************************************************************)
(* Sequence-like proxy: YunoList, held at Sub's key l                      *)
(***************************************************************************)
Lst == "lst"
MaxLen == 4

\* the attribute name "__storage__"
StorageName == <<"_", "_", "s", "t", "o", "r", "a", "g", "e", "_", "_">>

\* int(key) succeeds
IsInt(key) == key # <<>> /\ \A i \in 1..Len(key) : IsIndex(<<key[i]>>)

\* "self.__storage__ = copied" inside YunoList: YunoObject.__setattr__ sends
\* every name but __realtime__ to self.__setitem__(name, value), which is
\* YunoList.__setitem__: the name is no slice, int(name) raises ValueError and
\* TypeError is raised.  The storage is assigned only if the name is an int.
StorageAssigned == IsInt(StorageName)

\* [cast(element, field="{field}.{index}") for index, element in enumerate(bson)]
Recast(s) == [i \in 1..Len(s) |-> Cast(Enc(s[i]), "any")]

\* the tail of insert / pop / reverse / sort / *=: $set of the whole array,
\* then self.__storage__ = copied
ListCommit(op, k, copied, value, ok) ==
    IF ~UpdateOne("$set", ListField, Enc(ListV(copied)), ok)
    THEN /\ result' = Res(op, Lst, k, NoneV, "RemoteError", NoneV, 0, 0)
         /\ UNCHANGED <<remote, local, feed>>
    ELSE /\ AfterUpdate("$set", ListField, Enc(ListV(copied)), ok)
         /\ IF StorageAssigned
            THEN /\ local' = WithListSto(Recast(copied))
                 /\ result' = Res(op, Lst, k, NoneV, "ok", value, 0, 1)
            ELSE /\ UNCHANGED local
                 /\ result' = Res(op, Lst, k, NoneV, "TypeError", NoneV, 0, 1)

\* append(o): $push, then the local append
ListAppend(o, ok) ==
    /\ ListExists /\ CanEmit
    /\ Len(ListSto) < MaxLen
    /\ IF ~UpdateOne("$push", ListField, <<Enc(Cast(o, "any"))>>, ok)
       THEN /\ result' = Res("append", Lst, <<>>, o, "RemoteError", NoneV, 0, 0)
            /\ UNCHANGED <<remote, local, feed>>
       ELSE /\ AfterUpdate("$push", ListField, <<Enc(Cast(o, "any"))>>, ok)
            /\ local' = WithListSto(Append(ListSto, Cast(o, "any")))
            /\ result' = Res("append", Lst, <<>>, o, "ok", NoneV, 0, 1)
    /\ UNCHANGED LiveVars /\ UNCHANGED WatchVars

\* extend(iterable) and +=: $push with $each, then the local extend
ListExtend(items, ok) ==
    /\ ListExists /\ CanEmit
    /\ Len(ListSto) + Len(items) <= MaxLen
    /\ LET cast == [i \in 1..Len(items) |-> Cast(items[i], "any")] IN
       IF ~UpdateOne("$push", ListField, Enc(ListV(cast)).v, ok)
       THEN /\ result' = Res("extend", Lst, <<>>, NoneV, "RemoteError", NoneV, 0, 0)
            /\ UNCHANGED <<remote, local, feed>>
       ELSE /\ AfterUpdate("$push", ListField, Enc(ListV(cast)).v, ok)
            /\ local' = WithListSto(ListSto \o cast)
            /\ result' = Res("extend", Lst, <<>>, NoneV, "ok", NoneV, 0, 1)
    /\ UNCHANGED LiveVars /\ UNCHANGED WatchVars

\* insert(index, o)
ListInsert(i, o, ok) ==
    /\ ListExists /\ CanEmit
    /\ Len(ListSto) < MaxLen
    /\ i \in 0..Len(ListSto)
    /\ ListCommit("insert", IntToStr(i), SeqInsert(ListSto, i, o), NoneV, ok)
    /\ UNCHANGED LiveVars /\ UNCHANGED WatchVars

\* clear(): $set to [], then the local clear
ListClear(ok) ==
    /\ ListExists /\ CanEmit
    /\ IF ~UpdateOne("$set", ListField, ListV(<<>>), ok)
       THEN /\ result' = Res("clear", Lst, <<>>, NoneV, "RemoteError", NoneV, 0, 0)
            /\ UNCHANGED <<remote, local, feed>>
       ELSE /\ AfterUpdate("$set", ListField, ListV(<<>>), ok)
            /\ local' = WithListSto(<<>>)
            /\ result' = Res("clear", Lst, <<>>, NoneV, "ok", NoneV, 0, 1)
    /\ UNCHANGED LiveVars /\ UNCHANGED WatchVars

\* pop(index) and del proxy[index]
ListPop(i, ok) ==
    /\ ListExists /\ CanEmit
    /\ i \in 0..Len(ListSto)
    /\ IF i >= Len(ListSto)
       THEN /\ result' = Res("pop", Lst, IntToStr(i), NoneV, "IndexError", NoneV, 0, 0)
            /\ UNCHANGED <<remote, local, feed>>
       ELSE ListCommit("pop", IntToStr(i), SeqPop(ListSto, i), ListSto[i + 1], ok)
    /\ UNCHANGED LiveVars /\ UNCHANGED WatchVars

\* the first occurrence of x removed from a sequence holding it
RemoveFirst(s, x) ==
    LET i == CHOOSE j \in 1..Len(s) : s[j] = x /\ \A h \in 1..(j - 1) : s[h] # x
    IN  SeqPop(s, i - 1)

Holds(s, x) == \E j \in 1..Len(s) : s[j] = x

\* remove(value): $pull, then the local remove (in place), then
\* self.__storage__ = copied; only ValueError is swallowed
ListRemove(x, ok) ==
    /\ ListExists /\ CanEmit
    /\ IF ~UpdateOne("$pull", ListField, Enc(x), ok)
       THEN /\ result' = Res("remove", Lst, <<>>, x, "RemoteError", NoneV, 0, 0)
            /\ UNCHANGED <<remote, local, feed>>
       ELSE /\ AfterUpdate("$pull", ListField, Enc(x), ok)
            /\ IF ~Holds(ListSto, x)
               THEN /\ UNCHANGED local
                    /\ result' = Res("remove", Lst, <<>>, x, "ok", NoneV, 0, 1)
               ELSE IF StorageAssigned
               THEN /\ local' = WithListSto(Recast(RemoveFirst(ListSto, x)))
                    /\ result' = Res("remove", Lst, <<>>, x, "ok", NoneV, 0, 1)
               ELSE /\ local' = WithListSto(RemoveFirst(ListSto, x))
                    /\ result' = Res("remove", Lst, <<>>, x, "TypeError", NoneV, 0, 1)
    /\ UNCHANGED LiveVars /\ UNCHANGED WatchVars

\* reverse()
ListReverse(ok) ==
    /\ ListExists /\ CanEmit
    /\ ListCommit("reverse", <<>>, SeqReverse(ListSto), NoneV, ok)
    /\ UNCHANGED LiveVars /\ UNCHANGED WatchVars

\* a sequence of int values in ascending order, as list.sort() leaves it
RECURSIVE Sorted(_)
Sorted(s) ==
    IF s = <<>> THEN <<>>
    ELSE LET i == CHOOSE j \in 1..Len(s) :
                      /\ \A h \in 1..Len(s) : s[j].v <= s[h].v
                      /\ \A h \in 1..(j - 1) : s[h].v # s[j].v
         IN  <<s[i]>> \o Sorted(SeqPop(s, i - 1))

\* sort()
ListSort(ok) ==
    /\ ListExists /\ CanEmit
    /\ ListCommit("sort", <<>>, Sorted(ListSto), NoneV, ok)
    /\ UNCHANGED LiveVars /\ UNCHANGED WatchVars

\* proxy *= x
ListIMul(x, ok) ==
    /\ ListExists /\ CanEmit
    /\ Len(ListSto) * x <= MaxLen
    /\ ListCommit("imul", <<>>, IF x = 2 THEN ListSto \o ListSto
                          ELSE IF x = 1 THEN ListSto ELSE <<>>, NoneV, ok)
    /\ UNCHANGED LiveVars /\ UNCHANGED WatchVars

\* proxy[i:i+1] = [value]: the storage is changed in place first
\* (list.__setitem__ returns None), then enumerate(None) raises TypeError
\* before any remote call
ListSetSlice(i, value) ==
    /\ ListExists
    /\ i \in 0..(Len(ListSto) - 1)
    /\ local' = WithListSto([ListSto EXCEPT ![i + 1] = value])
    /\ result' = Res("setslice", Lst, IntToStr(i), value, "TypeError", NoneV, 0, 0)
    /\ UNCHANGED <<remote, feed>>
    /\ UNCHANGED LiveVars /\ UNCHANGED WatchVars

\* proxy[i] = value: $set on "{field}.{i}", the local store (IndexError out
\* of range), then self.__storage__ = [...]
ListSetIndex(i, value, ok) ==
    /\ ListExists /\ CanEmit
    /\ i \in 0..Len(ListSto)
    /\ LET path == Format(ListField, IntToStr(i)) IN
       IF ~UpdateOne("$set", path, Enc(value), ok)
       THEN /\ result' = Res("setindex", Lst, IntToStr(i), value, "RemoteError", NoneV, 0, 0)
            /\ UNCHANGED <<remote, local, feed>>
       ELSE /\ AfterUpdate("$set", path, Enc(value), ok)
            /\ IF i >= Len(ListSto)
               THEN /\ UNCHANGED local
                    /\ result' = Res("setindex", Lst, IntToStr(i), value, "IndexError", NoneV, 0, 1)
               ELSE IF StorageAssigned
               THEN /\ local' = WithListSto(Recast([ListSto EXCEPT ![i + 1] = value]))
                    /\ result' = Res("setindex", Lst, IntToStr(i), value, "ok", NoneV, 0, 1)
               ELSE /\ local' = WithListSto([ListSto EXCEPT ![i + 1] = value])
                    /\ result' = Res("setindex", Lst, IntToStr(i), value, "TypeError", NoneV, 0, 1)
    /\ UNCHANGED LiveVars /\ UNCHANGED WatchVars

(***************************************************************************)
(* Construction and reload                                                 *)
(***************************************************************************)
\* __lazy__ of the proxy's class
LazyOf(p) == IF p = Root THEN LazyFields ELSE {}

\* __fetch_from_db__ of YunoDict on the sub-tree the aggregate returns: every
\* key but the lazy ones is cast, then the LazyObjects are placed; Err when a
\* cast raises
FetchDoc(tree, lazy) ==
    IF tree.t # "map" THEN EmptyFn
    ELSE [k \in (DOMAIN tree.v) \cup lazy |->
            IF k \in lazy THEN LazyV(k) ELSE Cast(tree.v[k], Annot(k))]

FetchFails(tree, lazy) ==
    /\ tree.t = "map"
    /\ \E k \in (DOMAIN tree.v) \ lazy : IsErr(Cast(tree.v[k], Annot(k)))

\* reload(): __init__ again, without data; the last line of __init__ starts
\* a thread on _watch_loop, which returns at once unless __realtime__ is set
Reload(p, ok) ==
    /\ Exists(p)
    /\ LET tree == RemoteOf(Field(p)) IN
       IF ~ok \/ (p # Root /\ tree.t # "map" /\ remote[Id].t # "norecord")
          \/ FetchFails(tree, LazyOf(p))
       THEN /\ result' = Res("reload", p, <<>>, NoneV, "Error", NoneV, 1, 0)
            /\ UNCHANGED local
            /\ UNCHANGED loop
       ELSE /\ local' = WithDictSto(p, FetchDoc(tree, LazyOf(p)))
            /\ result' = Res("reload", p, <<>>, NoneV, "ok", NoneV, 1, 0)
            /\ realtime[p] => ~Alive(FreeSlot(p))
            /\ loop' = IF realtime[p] THEN Spawn(p) ELSE loop
    /\ UNCHANGED <<remote, feed, realtime, callbacks>>
    /\ UNCHANGED WatchVars

(***************************************************************************)
(* The watcher: Watch (saki/watch.py).  An event is identified by its      *)
(* place in the feed, which is also its resume token; token 0 is None.     *)
(***************************************************************************)
Watchers == {"A", "B"}

ErrorLimit == 3            \* error_limit
ErrorExpiration == 60      \* error_expiration

\* time.time() when the program starts: longer after the epoch than any window
Epoch == ErrorExpiration + 1

\* the clock is followed for MaxClock seconds
MaxClock == 62

\* a variant that opens the stream at the first event of the feed, whatever
\* the token
OpenedFromStart(token) == [alive |-> TRUE, pos |-> 1]

\* watching_object.watch(pipeline, full_document, resume_after=token): the
\* stream starts after the event of the token, or at the present for None
Opened(token) == [alive |-> TRUE, pos |-> IF token = 0 THEN Len(feed) + 1 ELSE token + 1]

\* hist[w]: out, how the watcher's last call ended; met, whether it met a
\* transport error; last, the last event delivered; errs, the times of the
\* last transport errors met by next(); fatal, whether the terminal condition
\* was raised and resume() has not been called since; base, the token the
\* present stream was opened from (0 for the first stream and for None);
\* sess, the last event the present stream delivered (0 for none); top, the
\* latest event ever delivered; ended, whether next() has ever signalled the
\* end of the stream; fresh, the number of errors next() has met since it
\* last delivered an event
Max(a, b) == IF a >= b THEN a ELSE b

\* the time of a transport error added to the watcher's history (the last
\* ErrorLimit + 1 are kept)
Noted(errs, t) ==
    IF Len(errs) <= ErrorLimit THEN Append(errs, t) ELSE Append(Tail(errs), t)

\* a variant that raises the terminal condition and leaves the stream open
WatchNextNoClose(w, fail, refail) ==
    /\ IF closed[w]
       THEN /\ hist' = [hist EXCEPT ![w].out = "stop", ![w].met = FALSE,
                                    ![w].ended = TRUE]
            /\ UNCHANGED <<stream, wstate>>
       ELSE IF stream[w].alive /\ ~fail
       THEN /\ stream[w].pos <= Len(feed)
            /\ stream' = [stream EXCEPT ![w].pos = @ + 1]
            /\ wstate' = [wstate EXCEPT !.token = stream[w].pos]
            /\ hist' = [hist EXCEPT ![w].out = "event", ![w].met = FALSE,
                                    ![w].fresh = 0,
                                    ![w].last = stream[w].pos,
                                    ![w].sess = stream[w].pos,
                                    ![w].top = Max(@, stream[w].pos)]
       ELSE LET expired == now - wstate.time > ErrorExpiration
                fatal == ~expired /\ wstate.count + 1 >= ErrorLimit
                errs == IF stream[w].alive THEN Noted(hist[w].errs, now) ELSE hist[w].errs
            IN  /\ wstate' = [wstate EXCEPT !.time = now,
                                            !.count = IF expired THEN 1 ELSE @ + 1]
                /\ stream' = IF fatal \/ refail THEN stream
                             ELSE [stream EXCEPT ![w] = Opened(wstate.token)]
                /\ hist' = [hist EXCEPT ![w].out = IF fatal THEN "fatal"
                                                   ELSE IF refail THEN "raised"
                                                   ELSE "reopened",
                                        ![w].met = stream[w].alive,
                                        ![w].errs = errs,
                                        ![w].fresh = @ + 1,
                                        ![w].fatal = @ \/ fatal,
                                        ![w].base = IF fatal \/ refail THEN @
                                                    ELSE wstate.token,
                                        ![w].sess = IF fatal \/ refail THEN @ ELSE 0]
    /\ UNCHANGED <<closed, now, remote, local, result, feed>>
    /\ UNCHANGED LiveVars

\* next() / __next__(), one pass through its body (the retry after a reopen
\* is the next pass): StopIteration when closed; the stream's next event,
\* whose token is stored; on any exception of the stream (a transport error,
\* or StopIteration of a stream that is closed) the error is counted, then the
\* stream is closed and ValueError raised, or the stream is reopened; the
\* reopening is a call of watching_object.watch() inside the except block, and
\* an error it raises (refail) leaves next() with the old stream in place;
\* limit is self.error_limit
WatchNextLimit(w, fail, refail, limit) ==
    /\ IF closed[w]
       THEN /\ hist' = [hist EXCEPT ![w].out = "stop", ![w].met = FALSE,
                                    ![w].ended = TRUE]
            /\ UNCHANGED <<stream, wstate>>
       ELSE IF stream[w].alive /\ ~fail
       THEN /\ stream[w].pos <= Len(feed)         \* blocks until there is one
            /\ stream' = [stream EXCEPT ![w].pos = @ + 1]
            /\ wstate' = [wstate EXCEPT !.token = stream[w].pos]
            /\ hist' = [hist EXCEPT ![w].out = "event", ![w].met = FALSE,
                                    ![w].fresh = 0,
                                    ![w].last = stream[w].pos,
                                    ![w].sess = stream[w].pos,
                                    ![w].top = Max(@, stream[w].pos)]
       ELSE LET expired == now - wstate.time > ErrorExpiration
                fatal == ~expired /\ wstate.count + 1 >= limit
                errs == IF stream[w].alive THEN Noted(hist[w].errs, now) ELSE hist[w].errs
            IN  /\ wstate' = [wstate EXCEPT !.time = now,
                                            !.count = IF expired THEN 1 ELSE @ + 1]
                /\ stream' = IF fatal THEN [stream EXCEPT ![w].alive = FALSE]
                             ELSE IF refail THEN stream
                             ELSE [stream EXCEPT ![w] = Opened(wstate.token)]
                /\ hist' = [hist EXCEPT ![w].out = IF fatal THEN "fatal"
                                                   ELSE IF refail THEN "raised"
                                                   ELSE "reopened",
                                        ![w].met = stream[w].alive,
                                        ![w].errs = errs,
                                        ![w].fresh = @ + 1,
                                        ![w].fatal = @ \/ fatal,
                                        ![w].base = IF fatal \/ refail THEN @
                                                    ELSE wstate.token,
                                        ![w].sess = IF fatal \/ refail THEN @ ELSE 0]
    /\ UNCHANGED <<closed, now, remote, local, result, feed>>
    /\ UNCHANGED LiveVars

\* next() of a watcher made with the default error_limit
WatchNext(w, fail, refail) == WatchNextLimit(w, fail, refail, ErrorLimit)

\* try_next(): the stream's next event if there is one, None otherwise; the
\* token is not stored; an exception other than StopIteration propagates
WatchTryNext(w, fail) ==
    /\ IF ~stream[w].alive
       THEN /\ hist' = [hist EXCEPT ![w].out = "none", ![w].met = FALSE]
            /\ UNCHANGED stream
       ELSE IF fail
       THEN /\ hist' = [hist EXCEPT ![w].out = "error", ![w].met = FALSE]
            /\ UNCHANGED stream
       ELSE IF stream[w].pos <= Len(feed)
       THEN /\ stream' = [stream EXCEPT ![w].pos = @ + 1]
            /\ hist' = [hist EXCEPT ![w].out = "event", ![w].met = FALSE,
                                    ![w].last = stream[w].pos,
                                    ![w].sess = stream[w].pos,
                                    ![w].top = Max(@, stream[w].pos)]
       ELSE /\ hist' = [hist EXCEPT ![w].out = "none", ![w].met = FALSE]
            /\ UNCHANGED stream
    /\ UNCHANGED <<closed, wstate, now, remote, local, result, feed>>
    /\ UNCHANGED LiveVars

\* close()
WatchClose(w) ==
    /\ closed' = [closed EXCEPT ![w] = TRUE]
    /\ stream' = [stream EXCEPT ![w].alive = FALSE]
    /\ hist' = [hist EXCEPT ![w].out = "closed", ![w].met = FALSE]
    /\ UNCHANGED <<wstate, now, remote, local, result, feed>>
    /\ UNCHANGED LiveVars

\* a variant of resume() that leaves the closed flag set
WatchResumeStillClosed(w) ==
    /\ stream' = [stream EXCEPT ![w] = Opened(wstate.token)]
    /\ hist' = [hist EXCEPT ![w].out = "resumed", ![w].met = FALSE, ![w].fatal = FALSE,
                            ![w].base = wstate.token, ![w].sess = 0]
    /\ UNCHANGED <<closed, wstate, now, remote, local, result, feed>>
    /\ UNCHANGED LiveVars

\* resume()
WatchResume(w) ==
    /\ stream' = [stream EXCEPT ![w] = Opened(wstate.token)]
    /\ closed' = [closed EXCEPT ![w] = FALSE]
    /\ hist' = [hist EXCEPT ![w].out = "resumed", ![w].met = FALSE, ![w].fatal = FALSE,
                            ![w].base = wstate.token, ![w].sess = 0]
    /\ UNCHANGED <<wstate, now, remote, local, result, feed>>
    /\ UNCHANGED LiveVars

\* time passes
Tick(d) ==
    /\ now + d <= Epoch + MaxClock
    /\ now' = now + d
    /\ UNCHANGED <<stream, closed, wstate, hist, remote, local, result, feed>>
    /\ UNCHANGED LiveVars

\* the collection changes: the server appends an event to the feed
Produce ==
    /\ Len(feed) < MaxFeed
    /\ feed' = Append(feed, Event("insert", OtherId, <<>>, <<>>))
    /\ UNCHANGED <<remote, local, result>>
    /\ UNCHANGED LiveVars /\ UNCHANGED WatchVars

\* no watcher has been made
InitWatchVars ==
    /\ stream = [w \in Watchers |-> [alive |-> FALSE, pos |-> 1]]
    /\ closed = [w \in Watchers |-> FALSE]
    /\ wstate = [token |-> 0, time |-> 0, count |-> 0]
    /\ now = Epoch
    /\ hist = [w \in Watchers |->
                  [out |-> "none", met |-> FALSE, last |-> 0, errs |-> <<>>,
                   fatal |-> FALSE, base |-> 0, sess |-> 0, top |-> 0,
                   ended |-> FALSE, fresh |-> 0]]

\* the kinds of events (OperationType)
Kinds == {"delete", "drop", "dropDatabase", "insert", "invalidate", "rename",
          "replace", "update"}

\* the callables given to on()
Handlers == {"f", "g"}

InitLiveVars ==
    /\ realtime = [p \in Dicts |-> FALSE]
    /\ loop = [t \in Threads |-> [st |-> "idle", pos |-> 1, saw |-> "none",
                                   sent |-> <<>>, served |-> {}, active |-> {}]]
    /\ callbacks = [k \in Kinds |-> <<>>]

(***************************************************************************)
(* The live-sync loop: YunoObject._watch_loop, one thread per proxy.       *)
(* loop[p]: st, idle (no thread), starting (the thread has been started    *)
(* and has not opened its watcher yet), running, or dead (the thread ended *)
(* with an exception); pos, the next event of its watcher; saw, the kind   *)
(* of the last event it took; sent, the handlers dispatched for that       *)
(* event, in the order of dispatch; served, the <<event, handler>> pairs   *)
(* dispatched so far.                                                      *)
(* callbacks[kind] is the list of the registered callables; each entry     *)
(* also keeps, for the record, the proxy whose on() made it and the length *)
(* of the feed when on() returned.                                         *)
(***************************************************************************)
\* self.__callbacks__.get(event.operation, []): the callables in the order of
\* the list
RECURSIVE Registered(_, _)
Registered(kind, i) ==
    IF i > Len(callbacks[kind]) THEN <<>>
    ELSE <<callbacks[kind][i].h>> \o Registered(kind, i + 1)

\* the dispatch loop over the callbacks of the event at index i: each is
\* called, or started in a thread, with the event and the proxy
\* a variant that starts every callable in a thread of its own
RECURSIVE DispatchInThreads(_, _, _, _)
DispatchInThreads(l, i, kind, j) ==
    IF j > Len(callbacks[kind]) THEN [l EXCEPT !.st = "running"]
    ELSE LET c == callbacks[kind][j]
             run == [i |-> i, j |-> j, h |-> c.h, blocking |-> c.blocking]
         IN  DispatchInThreads([l EXCEPT !.sent = Append(@, c.h),
                                         !.served = @ \cup {<<i, c.h>>},
                                         !.active = @ \cup {run}], i, kind, j + 1)

\* a blocking callable is called in the loop's thread, and the loop goes on
\* when it has returned; the others are started in a thread of their own.
\* DispatchFrom goes through the list from place j, up to the call of the
\* first blocking callable or to the end of the list; l.active holds the
\* callables that have been called or started and have not returned
RECURSIVE DispatchFrom(_, _, _, _)
DispatchFrom(l, i, kind, j) ==
    IF j > Len(callbacks[kind]) THEN [l EXCEPT !.st = "running"]
    ELSE LET c == callbacks[kind][j]
             run == [i |-> i, j |-> j, h |-> c.h, blocking |-> c.blocking]
             gone == [l EXCEPT !.sent = Append(@, c.h),
                               !.served = @ \cup {<<i, c.h>>},
                               !.active = @ \cup {run}]
         IN  IF c.blocking THEN [gone EXCEPT !.st = "calling"]
             ELSE DispatchFrom(gone, i, kind, j + 1)

Dispatch(l, i, kind) == DispatchFrom([l EXCEPT !.sent = <<>>], i, kind, 1)

\* a variant that takes the value of an integer field as an increment of the
\* value held
RECURSIVE ApplyUpdatedAdding(_, _, _, _, _)
ApplyUpdatedAdding(p, sto, fields, i, ok) ==
    IF i > Len(fields) THEN [sto |-> sto, ok |-> TRUE]
    ELSE LET key == fields[i][1]
             value == fields[i][2]
             name == LastSegment(key)
         IN  IF ~StartsWith(key, Field(p)) \/ CountDots(RemovePrefix(key, Field(p))) > 1
             THEN ApplyUpdatedAdding(p, sto, fields, i + 1, ok)
             ELSE IF name \in DOMAIN sto /\ sto[name].t = "int" /\ value.t = "int"
             THEN ApplyUpdatedAdding(p, Bind(sto, name, IntV(sto[name].v + value.v)),
                                     fields, i + 1, ok)
             ELSE ApplyUpdatedAdding(p, Bind(sto, name, value), fields, i + 1, ok)

\* the pass over update_description.updated_fields: the storage it leaves,
\* and whether it ended without an exception.  fields is the sequence of
\* <<path, value>> pairs in the order of the event.
RECURSIVE ApplyUpdated(_, _, _, _, _)
ApplyUpdated(p, sto, fields, i, ok) ==
    IF i > Len(fields) THEN [sto |-> sto, ok |-> TRUE]
    ELSE LET key == fields[i][1]
             value == fields[i][2]
         IN  IF ~StartsWith(key, Field(p)) \/ CountDots(RemovePrefix(key, Field(p))) > 1
             THEN ApplyUpdated(p, sto, fields, i + 1, ok)
             ELSE LET name == LastSegment(key)
                      lazy == name \in DOMAIN sto /\ sto[name].t = "lazy"
                      fetched == IF ok THEN LazyFetch(p, name) ELSE Err
                      read == IF IsErr(fetched) THEN Err ELSE Cast(fetched, Annot(name))
                      seen == IF lazy THEN Bind(sto, name, read) ELSE sto
                      needed == name \notin DOMAIN sto \/ value # seen[name]
                      cast == Cast(value, Annot(name))
                  IN  IF lazy /\ IsErr(read) THEN [sto |-> sto, ok |-> FALSE]
                      ELSE IF ~needed THEN ApplyUpdated(p, seen, fields, i + 1, ok)
                      ELSE IF IsErr(cast) THEN [sto |-> seen, ok |-> FALSE]
                      ELSE ApplyUpdated(p, Bind(seen, name, cast), fields, i + 1, ok)

\* the pass over update_description.removed_fields: the whole path is the
\* key deleted, KeyError is passed over
RECURSIVE ApplyRemoved(_, _, _, _)
ApplyRemoved(p, sto, paths, i) ==
    IF i > Len(paths) THEN sto
    ELSE IF ~StartsWith(paths[i], Field(p)) \/ paths[i] \notin DOMAIN sto
    THEN ApplyRemoved(p, sto, paths, i + 1)
    ELSE ApplyRemoved(p, Unbind(sto, paths[i]), paths, i + 1)

\* one turn of "for event in watch": the next event of the collection's feed
\* (watch() sets no filter on the record) is taken and applied
LoopStep(t, ok) ==
    LET p == ProxyOf(t) IN
    /\ Exists(p)
    /\ loop[t].st = "running"
    /\ loop[t].pos <= Len(feed)
    /\ LET ev == feed[loop[t].pos]
           up == ApplyUpdated(p, DictSto(p), ev.updated, 1, ok)
           took == [loop[t] EXCEPT !.pos = @ + 1, !.saw = ev.kind, !.sent = <<>>]
       IN  IF ~realtime[p]
           THEN /\ loop' = [loop EXCEPT ![t] = [took EXCEPT !.st = "idle"]]
                /\ UNCHANGED local
           ELSE IF ev.kind = "update"
           THEN IF up.ok
                THEN /\ local' = WithDictSto(p, ApplyRemoved(p, up.sto, ev.removed, 1))
                     /\ loop' = [loop EXCEPT ![t] = Dispatch(took, loop[t].pos, ev.kind)]
                ELSE /\ local' = WithDictSto(p, up.sto)
                     /\ loop' = [loop EXCEPT ![t] = [took EXCEPT !.st = "dead"]]
           ELSE /\ loop' = [loop EXCEPT ![t] =
                              IF ev.kind \in {"drop", "dropDatabase"}
                              THEN [took EXCEPT !.st = "dead"]
                              ELSE Dispatch(took, loop[t].pos, ev.kind)]
                /\ UNCHANGED local
    /\ UNCHANGED <<remote, result, feed, realtime, callbacks, steps>>
    /\ UNCHANGED WatchVars

\* a callable that was called or started returns, or raises; the exception of
\* a blocking one ends the loop's thread, its return lets the dispatch go on
CallbackEnd(t, run, raised) ==
    /\ run \in loop[t].active
    /\ LET rest == [loop[t] EXCEPT !.active = @ \ {run}] IN
       loop' = [loop EXCEPT ![t] =
                  IF ~run.blocking THEN rest
                  ELSE IF raised THEN [rest EXCEPT !.st = "dead"]
                  ELSE DispatchFrom(rest, run.i, feed[run.i].kind, run.j + 1)]
    /\ UNCHANGED <<remote, local, result, feed, realtime, callbacks, steps>>
    /\ UNCHANGED WatchVars

\* the loops after "self.__realtime__ = value" with a true value
\* (__setattr__): when the flag was not set, a thread running _watch_loop is
\* started
Started(p) == IF realtime[p] THEN loop ELSE Spawn(p)

\* proxy.__realtime__ = value
SetRealtime(p, value) ==
    /\ Exists(p)
    /\ (value /\ ~realtime[p]) => ~Alive(FreeSlot(p))
    /\ realtime' = [realtime EXCEPT ![p] = value]
    /\ loop' = IF value THEN Started(p) ELSE loop
    /\ UNCHANGED <<remote, local, result, feed, callbacks>>
    /\ UNCHANGED WatchVars

\* proxy.__realtime__ = True while no thread of the proxy is alive
EnableLive(p) ==
    /\ ~Alive(p)
    /\ SetRealtime(p, TRUE)

\* proxy.on(kind, h, blocking): the callable is appended to the list of the
\* kind, then __realtime__ is set
Register(p, kind, h, blocking) ==
    /\ Exists(p)
    /\ ~realtime[p] => ~Alive(FreeSlot(p))
    /\ callbacks' = [callbacks EXCEPT ![kind] =
                        Append(@, [h |-> h, blocking |-> blocking,
                                   owner |-> p, at |-> Len(feed)])]
    /\ realtime' = [realtime EXCEPT ![p] = TRUE]
    /\ loop' = Started(p)
    /\ UNCHANGED <<remote, local, result, feed>>
    /\ UNCHANGED WatchVars

\* proxy.on(kind, h), blocking left to its default, while no second thread
\* would be started
On(p, kind, h) ==
    /\ realtime[p] \/ ~Alive(p)
    /\ Register(p, kind, h, FALSE)

\* the thread's first lines: it returns when the flag is not set, otherwise
\* self.watch(error_limit=10) opens the watcher, at the present
LoopOpen(t) ==
    /\ loop[t].st = "starting"
    /\ loop' = IF realtime[ProxyOf(t)]
               THEN [loop EXCEPT ![t].st = "running", ![t].pos = Len(feed) + 1]
               ELSE [loop EXCEPT ![t].st = "idle"]
    /\ UNCHANGED <<remote, local, result, feed, realtime, callbacks, steps>>
    /\ UNCHANGED WatchVars

\* proxy.__realtime__ = False: the loop ends at the next event it takes
DisableLive(p) ==
    /\ realtime[p]
    /\ SetRealtime(p, FALSE)

\* the document after $set of every <<path, value>> of fields
RECURSIVE SetAll(_, _, _)
SetAll(doc, fields, i) ==
    IF i > Len(fields) \/ IsErr(doc) THEN doc
    ELSE SetAll(ApplyUpdate(doc, "$set", fields[i][1], fields[i][2]), fields, i + 1)

\* another client's update_one({"_id": id}, {"$set": fields})
OtherWrite(id, fields) ==
    /\ CanEmit
    /\ remote[id].t # "norecord"
    /\ ~IsErr(SetAll(remote[id], fields, 1))
    /\ remote' = [remote EXCEPT ![id] = SetAll(remote[id], fields, 1)]
    /\ feed' = Emit(Event("update", id, fields, <<>>))
    /\ UNCHANGED <<local, result>>
    /\ UNCHANGED LiveVars /\ UNCHANGED WatchVars

\* another client's update_one({"_id": id}, {"$unset": {path: ...}}) of a
\* field the record holds
OtherUnset(id, path) ==
    /\ CanEmit
    /\ remote[id].t # "norecord"
    /\ GetIn(remote[id], Split(path)).t # "missing"
    /\ remote' = [remote EXCEPT ![id] = ApplyUpdate(remote[id], "$unset", path, NoneV)]
    /\ feed' = Emit(Event("update", id, <<>>, <<path>>))
    /\ UNCHANGED <<local, result>>
    /\ UNCHANGED LiveVars /\ UNCHANGED WatchVars

\* another client drops the collection
OtherDrop ==
    /\ CanEmit
    /\ \E i \in Ids : remote[i].t # "norecord"
    /\ remote' = [i \in Ids |-> NoRecord]
    /\ feed' = Emit(Event("drop", Id, <<>>, <<>>))
    /\ UNCHANGED <<local, result>>
    /\ UNCHANGED LiveVars /\ UNCHANGED WatchVars

(***************************************************************************)
(* Spec: the proxies of one record used by one caller, live sync off       *)
(***************************************************************************)
InitDoc ==
    MapV((KN :> IntV(1)) @@ (KH :> IntV(3)) @@
         (KA :> MapV((KN :> IntV(1)) @@ (KS :> StrV(1)))))

InitRemote == [i \in Ids |-> IF i = Id THEN InitDoc ELSE MapV(KN :> IntV(1))]

Init ==
    /\ remote = InitRemote
    /\ local = FetchDoc(InitDoc, LazyFields)
    /\ result = [op |-> "init", proxy |-> Root, key |-> <<>>, arg |-> NoneV, status |-> "ok",
                 value |-> NoneV, reads |-> 1, writes |-> 0, after |-> Missing,
                 clean |-> TRUE]
    /\ feed = <<>>
    /\ InitLiveVars
    /\ InitWatchVars
    /\ steps = 0

\* the keys and values the caller uses
KeysOf(p) == IF p = Root THEN {KN, KH} ELSE {KN, KS}

ValsOf(k) ==
    CASE k = KN -> {IntV(1), StrV(2), StrV(-1)}
      [] k = KL -> {ListV(<<IntV(1), IntV(2), IntV(3)>>), ListV(<<IntV(1), IntV(1)>>)}
      [] OTHER -> {IntV(2)}

Elems == {IntV(1), IntV(3)}

\* the caller makes at most MaxOps operations
MaxOps == 3

Op == steps < MaxOps /\ steps' = steps + 1

Next ==
    \/ \E p \in Dicts, ok \in BOOLEAN : \E k \in KeysOf(p) : Op /\ GetItem(p, k, ok)
    \/ \E p \in Dicts, ok \in BOOLEAN : \E k \in KeysOf(p) : \E v \in ValsOf(k) :
          Op /\ SetItem(p, k, v, ok)
    \/ \E p \in Dicts, ok \in BOOLEAN : \E k \in KeysOf(p) : Op /\ DelItem(p, k, ok)
    \/ \E p \in Dicts, ok \in BOOLEAN : Op /\ Clear(p, ok)
    \/ \E p \in Dicts, ok \in BOOLEAN : \E k \in KeysOf(p), d \in BOOLEAN :
          Op /\ Pop(p, k, d, NoneV, ok)
    \/ \E p \in Dicts, ok \in BOOLEAN : \E k \in KeysOf(p) : Op /\ PopItem(p, k, ok)
    \/ \E p \in Dicts, ok \in BOOLEAN : \E k \in KeysOf(p) : \E v \in ValsOf(k) :
          Op /\ SetDefault(p, k, v, ok)
    \/ \E p \in Dicts, ok \in BOOLEAN : \E k \in KeysOf(p) : \E v \in ValsOf(k) :
          Op /\ Update(p, k, v, ok)
    \/ \E p \in Dicts, ok \in BOOLEAN : Op /\ Reload(p, ok)

Spec == Init /\ [][Next]_vars

(***************************************************************************)
(* SpecList: key writes, and the sequence-like proxy they create           *)
(***************************************************************************)
ListKeys == {KN, KL}

NextList ==
    \/ \E p \in Dicts, ok \in BOOLEAN : \E k \in ListKeys : \E v \in ValsOf(k) :
          Op /\ SetItem(p, k, v, ok)
    \/ \E k \in ListKeys : Op /\ GetItem(Sub, k, TRUE)
    \/ \E ok \in BOOLEAN : \E o \in Elems : Op /\ ListAppend(o, ok)
    \/ \E ok \in BOOLEAN : \E o \in Elems : Op /\ ListExtend(<<o, o>>, ok)
    \/ \E ok \in BOOLEAN : \E i \in 0..MaxLen, o \in Elems : Op /\ ListInsert(i, o, ok)
    \/ \E ok \in BOOLEAN : Op /\ ListClear(ok)
    \/ \E ok \in BOOLEAN : \E i \in 0..MaxLen : Op /\ ListPop(i, ok)
    \/ \E ok \in BOOLEAN : \E x \in Elems : Op /\ ListRemove(x, ok)
    \/ \E ok \in BOOLEAN : Op /\ ListReverse(ok)
    \/ \E ok \in BOOLEAN : Op /\ ListSort(ok)
    \/ \E ok \in BOOLEAN : \E x \in 0..2 : Op /\ ListIMul(x, ok)
    \/ \E i \in 0..MaxLen, o \in Elems : Op /\ ListSetSlice(i, o)
    \/ \E ok \in BOOLEAN : \E i \in 0..MaxLen, o \in Elems : Op /\ ListSetIndex(i, o, ok)

SpecList == Init /\ [][NextList]_vars

(***************************************************************************)
(* SpecWatch: two watchers of one collection, each used by its own caller  *)
(***************************************************************************)
InitWatch ==
    /\ remote = InitRemote
    /\ local = FetchDoc(InitDoc, LazyFields)
    /\ result = [op |-> "init", proxy |-> Root, key |-> <<>>, arg |-> NoneV, status |-> "ok",
                 value |-> NoneV, reads |-> 1, writes |-> 0, after |-> Missing,
                 clean |-> TRUE]
    /\ feed = <<>>
    /\ InitLiveVars
    /\ stream = [w \in Watchers |-> [alive |-> TRUE, pos |-> 1]]
    /\ closed = [w \in Watchers |-> FALSE]
    /\ wstate = [token |-> 0, time |-> 0, count |-> 0]
    /\ now = Epoch
    /\ hist = [w \in Watchers |->
                  [out |-> "none", met |-> FALSE, last |-> 0, errs |-> <<>>,
                   fatal |-> FALSE, base |-> 0, sess |-> 0, top |-> 0,
                   ended |-> FALSE, fresh |-> 0]]
    /\ steps = 0

\* the watchers' callers and the clock make at most MaxWatchOps steps
MaxWatchOps == 7

WatchOp == steps < MaxWatchOps /\ steps' = steps + 1

NextWatch ==
    \/ \E w \in Watchers, fail, refail \in BOOLEAN : WatchOp /\ WatchNext(w, fail, refail)
    \/ \E w \in Watchers, fail \in BOOLEAN : WatchOp /\ WatchTryNext(w, fail)
    \/ \E w \in Watchers : WatchOp /\ WatchClose(w)
    \/ \E w \in Watchers : WatchOp /\ WatchResume(w)
    \/ \E d \in {1, ErrorExpiration} : WatchOp /\ Tick(d)
    \/ WatchOp /\ Produce

SpecWatch == InitWatch /\ [][NextWatch]_vars

(***************************************************************************)
(* SpecLive: the proxies of one record with live sync, their caller, and   *)
(* other clients writing to the collection                                 *)
(***************************************************************************)
KB == <<"b">>

\* the updates of the other clients: one field of the nested map, a field of
\* the record together with the nested field of the same name, a field of
\* the map ab, and a value the declared type refuses ahead of another field
OtherFields ==
    { << <<Format(KA, KN), IntV(5)>> >>,
      << <<KN, IntV(5)>>, <<Format(KA, KN), IntV(6)>> >>,
      << <<Format(KA \o KB, KN), IntV(7)>> >>,
      << <<Format(KA, KN), StrV(-1)>>, <<Format(KA, KS), IntV(5)>> >> }

\* the fields other clients remove: one of the record, one of the nested map
UnsetPaths == {KN, Format(KA, KN)}

\* the kinds callbacks are registered for
OnKinds == {"update", "drop"}

NextLive ==
    \/ \E p \in Dicts : Op /\ EnableLive(p)
    \/ \E p \in Dicts : Op /\ DisableLive(p)
    \/ \E p \in Dicts, kind \in OnKinds, h \in Handlers : Op /\ On(p, kind, h)
    \/ \E p \in Dicts : LoopOpen(p)
    \/ \E p \in Dicts, ok \in BOOLEAN : LoopStep(p, ok)
    \/ \E i \in Ids, fields \in OtherFields : Op /\ OtherWrite(i, fields)
    \/ Op /\ OtherDrop
    \/ \E p \in Dicts : \E k \in KeysOf(p) : Op /\ GetItem(p, k, TRUE)
    \/ \E p \in Dicts, ok \in BOOLEAN : \E k \in KeysOf(p) : Op /\ SetItem(p, k, IntV(2), ok)
    \/ \E p \in Dicts : \E k \in KeysOf(p) : Op /\ DelItem(p, k, TRUE)

SpecLive == Init /\ [][NextLive]_vars

\* the same program with fair scheduling of the live-sync threads: a thread
\* that has been started opens its watcher, and a loop whose watcher holds an
\* event takes it
SpecLiveFair ==
    /\ Init /\ [][NextLive]_vars
    /\ \A p \in Dicts : WF_vars(LoopOpen(p)) /\ WF_vars(\E ok \in BOOLEAN : LoopStep(p, ok))

(***************************************************************************)
(* SpecBuild: the record's proxy of a class that declares a default,       *)
(* "d = 7", is made from records that hold the field or not                *)
(***************************************************************************)
KD == <<"d">>

\* the class attributes found by __post_verification__: dir(self) less the
\* attributes of the storage and the overwritten names
Defaults == (KD :> IntV(7))

\* __post_verification__ of YunoDict: every default whose key is not in the
\* storage is cast and put into the storage
PostVerification(sto) ==
    [k \in (DOMAIN sto) \cup (DOMAIN Defaults) |->
        IF k \in DOMAIN sto THEN sto[k] ELSE Cast(Defaults[k], Annot(k))]

\* YunoDict(_id, collection): __init__ without data fetches the record, then
\* runs __post_verification__
Build(ok) ==
    /\ LET tree == RemoteOf(<<>>) IN
       IF ~ok \/ FetchFails(tree, LazyFields)
       THEN /\ result' = Res("build", Root, <<>>, NoneV, "Error", NoneV, 1, 0)
            /\ UNCHANGED local
       ELSE /\ local' = PostVerification(FetchDoc(tree, LazyFields))
            /\ result' = Res("build", Root, <<>>, NoneV, "ok", NoneV, 1, 0)
    /\ UNCHANGED <<remote, feed>>
    /\ UNCHANGED LiveVars /\ UNCHANGED WatchVars

\* the records the proxy is made from
BuildDocs ==
    { MapV(KN :> IntV(1)),
      MapV((KN :> IntV(1)) @@ (KD :> IntV(2))),
      MapV((KN :> StrV(2)) @@ (KH :> IntV(3))),
      MapV((KN :> IntV(1)) @@ (KD :> IntV(7)) @@ (KA :> MapV(KN :> IntV(1)))) }

\* no proxy has been made yet
InitBuild ==
    /\ remote \in {[i \in Ids |-> IF i = Id THEN doc ELSE MapV(KN :> IntV(1))] :
                      doc \in BuildDocs}
    /\ local = EmptyFn
    /\ result = [op |-> "none", proxy |-> Root, key |-> <<>>, arg |-> NoneV, status |-> "ok",
                 value |-> NoneV, reads |-> 0, writes |-> 0, after |-> Missing,
                 clean |-> TRUE]
    /\ feed = <<>>
    /\ InitLiveVars
    /\ InitWatchVars
    /\ steps = 0

NextBuild ==
    \/ \E ok \in BOOLEAN : Op /\ Build(ok)
    \/ \E k \in {KN, KD, KH} : Op /\ GetItem(Root, k, TRUE)
    \/ \E fields \in OtherFields : Op /\ OtherWrite(Id, fields)
    \/ \E path \in UnsetPaths \cup {KD} : Op /\ OtherUnset(Id, path)

SpecBuild == InitBuild /\ [][NextBuild]_vars

(***************************************************************************)
(* SpecNest: the caller stores nested maps and sequences with key writes,  *)
(* update() and setdefault()                                               *)
(***************************************************************************)
NestKeys(p) == IF p = Root THEN {KA} ELSE {KL, KB}

NestVals == {MapV(KN :> IntV(2)), ListV(<<IntV(1)>>), MapV(EmptyFn)}

NextNest ==
    \/ \E p \in Dicts, ok \in BOOLEAN : \E k \in NestKeys(p), v \in NestVals :
          Op /\ SetItem(p, k, v, ok)
    \/ \E p \in Dicts, ok \in BOOLEAN : \E k \in NestKeys(p), v \in NestVals :
          Op /\ SetDefault(p, k, v, ok)
    \/ \E p \in Dicts, ok \in BOOLEAN : \E k \in NestKeys(p), v \in NestVals :
          Op /\ Update(p, k, v, ok)
    \/ \E p \in Dicts : \E k \in NestKeys(p) : Op /\ GetItem(p, k, TRUE)

SpecNest == Init /\ [][NextNest]_vars

(***************************************************************************)
(* SpecCodec: a primitive value is encoded for the wire and the wire value *)
(* is cast back with a declared type.  `result` holds the value given, the *)
(* wire value, the declared type and what the cast gave.                   *)
(***************************************************************************)
Primitives ==
    {BoolV(TRUE), BoolV(FALSE), IntV(0), IntV(1), IntV(7), Scalar("int64", 7),
     Scalar("float", 0), Scalar("float", 15), StrV(1), StrV(-1),
     Scalar("bytes", 1), Scalar("bytes", 2), Scalar("datetime", 1), Scalar("datetime", 2),
     Scalar("oid", 1), Scalar("oid", 2), BinaryV(0, 1), BinaryV(5, 1),
     Scalar("pattern", 1), Scalar("dbref", 1), Scalar("code", 1), Scalar("code", 2),
     StrV(2), Scalar("float", 10), Scalar("int64", 0)}

\* type(v)
TypeOf(v) == v.t

\* the types a field holding the value is declared with: its own type, str,
\* or none ("any")
Declared(v) == {TypeOf(v), "str", "any"}

InitCodec ==
    /\ remote = InitRemote
    /\ local = EmptyFn
    /\ result \in {[op |-> "given", arg |-> v, wire |-> NoneV, type |-> "any",
                     value |-> NoneV, status |-> "ok"] : v \in Primitives}
    /\ feed = <<>>
    /\ InitLiveVars
    /\ InitWatchVars
    /\ steps = 0

\* YunoBSONEncoder().default(v)
Encode ==
    /\ result.op = "given"
    /\ result' = [result EXCEPT !.op = "encode", !.wire = Enc(result.arg)]
    /\ UNCHANGED <<remote, local, feed, steps>>
    /\ UNCHANGED LiveVars /\ UNCHANGED WatchVars

\* YunoTypeEncoder().default(wire, _type=type)
CastBack(type) ==
    /\ result.op = "encode"
    /\ LET back == Cast(result.wire, type) IN
       result' = [result EXCEPT !.op = "cast", !.type = type,
                                !.value = IF IsErr(back) THEN NoneV ELSE back,
                                !.status = IF IsErr(back) THEN "CastError" ELSE "ok"]
    /\ UNCHANGED <<remote, local, feed, steps>>
    /\ UNCHANGED LiveVars /\ UNCHANGED WatchVars

NextCodec ==
    \/ Encode
    \/ \E type \in Declared(result.arg) : CastBack(type)

SpecCodec == InitCodec /\ [][NextCodec]_vars

(***************************************************************************)
(* SpecDump: the caller takes the proxies as dicts, between key writes and *)
(* updates                                                                 *)
(***************************************************************************)
KU == <<"s", "_", "n">>     \* a field named "s_n"

\* exclude: None, one name, or a list of names
Excluded == {{}, {KN}, {KN, KU}}

NextDump ==
    \/ \E p \in Dicts, exclude \in Excluded, camelCase \in BOOLEAN :
          Op /\ ToDict(p, exclude, camelCase)
    \/ \E p \in Dicts : \E k \in {KN, KU} : Op /\ GetItem(p, k, TRUE)
    \/ \E ok \in BOOLEAN : \E v \in ValsOf(KN) : Op /\ SetItem(Sub, KN, v, ok)
    \/ \E p \in Dicts, ok \in BOOLEAN : Op /\ Update(p, KU, IntV(2), ok)

SpecDump == Init /\ [][NextDump]_vars

(***************************************************************************)
(* SpecLimit: watchers made with error_limit from 1 to the default, held   *)
(* in `result` for the whole behaviour                                     *)
(***************************************************************************)
InitLimit ==
    /\ remote = InitRemote
    /\ local = FetchDoc(InitDoc, LazyFields)
    /\ result \in {[op |-> "Watch", error_limit |-> n] : n \in 1..ErrorLimit}
    /\ feed = <<>>
    /\ InitLiveVars
    /\ stream = [w \in Watchers |-> [alive |-> TRUE, pos |-> 1]]
    /\ closed = [w \in Watchers |-> FALSE]
    /\ wstate = [token |-> 0, time |-> 0, count |-> 0]
    /\ now = Epoch
    /\ hist = [w \in Watchers |->
                  [out |-> "none", met |-> FALSE, last |-> 0, errs |-> <<>>,
                   fatal |-> FALSE, base |-> 0, sess |-> 0, top |-> 0,
                   ended |-> FALSE, fresh |-> 0]]
    /\ steps = 0

NextLimit ==
    \/ \E w \in Watchers, fail, refail \in BOOLEAN :
          WatchOp /\ WatchNextLimit(w, fail, refail, result.error_limit)
    \/ \E d \in {1, ErrorExpiration} : WatchOp /\ Tick(d)
    \/ WatchOp /\ Produce

SpecLimit == InitLimit /\ [][NextLimit]_vars

(***************************************************************************)
(* SpecLoops: the threads of the live-sync loops and the callbacks: the    *)
(* caller sets and clears __realtime__, registers callables, blocking or   *)
(* not, and reloads, while other clients write                             *)
(***************************************************************************)
\* the callables that have been called or started by thread t
Runs(t) == loop[t].active

NextLoops ==
    \/ \E p \in Dicts, value \in BOOLEAN : Op /\ SetRealtime(p, value)
    \/ \E p \in Dicts, h \in Handlers, blocking \in BOOLEAN :
          Op /\ Register(p, "update", h, blocking)
    \/ \E p \in Dicts : Op /\ Reload(p, TRUE)
    \/ \E t \in Threads : LoopOpen(t)
    \/ \E t \in Threads : LoopStep(t, TRUE)
    \/ \E t \in Threads, raised \in BOOLEAN : \E run \in Runs(t) : CallbackEnd(t, run, raised)
    \/ \E fields \in OtherFields : Op /\ OtherWrite(Id, fields)
    \/ \E path \in UnsetPaths : Op /\ OtherUnset(Id, path)

SpecLoops == Init /\ [][NextLoops]_vars

(***************************************************************************)
(* Properties of the proxies                                               *)
(***************************************************************************)
\* the field path of key k of a proxy at path p: p.k, or k for the record
KeyPath(field, k) == IF field = <<>> THEN k ELSE Format(field, k)

\* every stored key of a map-like proxy that is no LazyObject encodes to the
\* remote value at its path
DictMirrors(p) ==
    \A k \in DOMAIN DictSto(p) :
        DictSto(p)[k].t # "lazy" =>
            Enc(DictSto(p)[k]) = RemoteAt(KeyPath(Field(p), k))

ListMirrors ==
    \A i \in 1..Len(ListSto) :
        Enc(ListSto[i]) = RemoteAt(Format(ListField, IntToStr(i - 1)))

C3_ReadOwnWrite ==
    (result.op = "getitem" /\ result.after.t # "missing") =>
        /\ result.status = "ok"
        /\ result.value = Cast(result.after, Annot(result.key))
        /\ result.reads = 0 /\ result.writes = 0

\* C3 witness: "2" was written to the int field n and the read gave 2
C3_Witness ==
    /\ result.op = "getitem" /\ result.proxy = Sub /\ result.key = KN
    /\ result.after = StrV(2) /\ result.value = IntV(2)

\* C10: after proxy.l = [1, 2, 3] and proxy.l.pop(1), with the remote write
\* acknowledged, the local value and the remote sub-tree are both [1, 3].
C10_PopScenario ==
    (/\ result.op = "pop" /\ result.proxy = Lst /\ result.key = IntToStr(1)
     /\ result.after = ListV(<<IntV(1), IntV(2), IntV(3)>>)
     /\ result.writes = 1) =>
        /\ ListExists
        /\ ListSto = <<IntV(1), IntV(3)>>
        /\ RemoteAt(ListField) = ListV(<<IntV(1), IntV(3)>>)

(***************************************************************************)
(* Properties of the watcher                                               *)
(***************************************************************************)
\* C4: after a transport error made next() reopen the feed, delivery resumes
\* at or after the last confirmed token: the reopened stream of a watcher
\* that has delivered an event stands no later than right after that event,
\* so no event produced after it is skipped.
C4_ResumeNoGap ==
    \A w \in Watchers :
        (hist[w].out = "reopened" /\ hist[w].last > 0) =>
            stream[w].pos <= hist[w].last + 1

\* the last ErrorLimit + 1 transport errors of w all fall within one window
ManyErrors(w) ==
    /\ Len(hist[w].errs) = ErrorLimit + 1
    /\ hist[w].errs[ErrorLimit + 1] - hist[w].errs[1] <= ErrorExpiration

\* C5: when next() meets a transport error that makes more than ErrorLimit
\* of them within ErrorExpiration seconds, it raises the terminal condition
\* and the underlying stream is closed.
C5_TooManyErrors ==
    \A w \in Watchers :
        (hist[w].met /\ ManyErrors(w)) =>
            (hist[w].out = "fatal" /\ ~stream[w].alive)

\* C5 witness: a fourth transport error within the window raised the
\* terminal condition
C5_Witness ==
    \E w \in Watchers : hist[w].met /\ ManyErrors(w) /\ hist[w].out = "fatal"

\* C6: once next() has raised the terminal condition and until resume() is
\* called, no call reopens the stream or delivers an event.
C6_NoSelfRecovery ==
    \A w \in Watchers :
        hist[w].fatal => (~stream[w].alive /\ hist[w].out \notin {"event", "reopened"})

(***************************************************************************)
(* Properties of the live-sync loop                                        *)
(***************************************************************************)
\* the step is a turn of p's loop, which takes the event feed[loop[p].pos]
Took(p) == loop[p].st = "running" /\ loop'[p].pos = loop[p].pos + 1

\* path q lies under the proxy path at a dot boundary; the key left when the
\* proxy path is removed
Under(q, field) == field = <<>> \/ StartsWith(q, field \o <<Dot>>)
Residual(q, field) == IF field = <<>> THEN q ELSE SubSeq(q, Len(field) + 2, Len(q))

\* C7: when the loop of a live proxy at path p takes an update event of the
\* record whose updatedFields holds p.k = v (v a value the declared type of k
\* accepts), storage[k] is the cast of v once the event is applied, and no
\* remote write is made.
C7_LoopAppliesUpdate ==
    [][\A p \in Dicts : \A k \in {KN, KS} :
          LET ev == feed[loop[p].pos] IN
          (/\ Took(p) /\ realtime[p]
           /\ ev.kind = "update" /\ ev.id = Id) =>
              \A i \in 1..Len(ev.updated) :
                  (/\ ev.updated[i][1] = KeyPath(Field(p), k)
                   /\ ~IsErr(Cast(ev.updated[i][2], Annot(k)))) =>
                      /\ remote' = remote
                      /\ k \in DOMAIN DictSto(p)'
                      /\ DictSto(p)'[k] = Cast(ev.updated[i][2], Annot(k))]_vars

\* C8: a turn of the loop changes key k of the proxy's storage only if the
\* event is an update of the proxy's record and one of its paths lies under
\* the proxy path at a dot boundary and is k once the proxy path is removed.
C8_LoopFilters ==
    [][\A p \in Dicts :
          LET ev == feed[loop[p].pos] IN
          Took(p) =>
              \A k \in (DOMAIN DictSto(p)) \cup (DOMAIN DictSto(p)') :
                  (\/ k \notin DOMAIN DictSto(p)
                   \/ k \notin DOMAIN DictSto(p)'
                   \/ DictSto(p)'[k] # DictSto(p)[k]) =>
                      /\ ev.kind = "update" /\ ev.id = Id
                      /\ \/ \E i \in 1..Len(ev.updated) :
                               /\ Under(ev.updated[i][1], Field(p))
                               /\ Residual(ev.updated[i][1], Field(p)) = k
                         \/ \E i \in 1..Len(ev.removed) :
                               /\ Under(ev.removed[i], Field(p))
                               /\ Residual(ev.removed[i], Field(p)) = k]_vars

\* C9: once the loop of a proxy has taken a drop event, the next read of a
\* key of that proxy raises the remote-object-gone condition.
C9_DropRaises ==
    [][\A p \in Dicts :
          (/\ loop[p].st = "dead" /\ loop[p].saw \in {"drop", "dropDatabase"}
           /\ steps' # steps
           /\ result'.op = "getitem" /\ result'.proxy = p) =>
              result'.status = "Gone"]_vars

(***************************************************************************)
(* Properties of the structural mutations                                  *)
(***************************************************************************)
\* C11: remove(v) on a sequence-like proxy whose storage does not hold v, the
\* remote call going through, does not raise and leaves the local storage and
\* the remote sub-tree as they were.
C11_RemoveAbsentNoOp ==
    [][(/\ steps' # steps
        /\ result'.op = "remove" /\ result'.proxy = Lst
        /\ result'.status # "RemoteError"
        /\ ListExists /\ ~Holds(ListSto, result'.arg)) =>
           /\ result'.status = "ok"
           /\ local' = local
           /\ remote' = remote]_vars

\* the record's proxy holds a Lazy Placeholder at key h
IsLazy == KH \in DOMAIN local /\ local[KH].t = "lazy"

\* C12: the lazy field h of the materialized record stays a Lazy Placeholder
\* through every operation that names another key; the first read of h that
\* returns makes one scoped fetch, stores the cast remote value in place of
\* the placeholder and returns it; a read of h once it is materialized makes
\* no fetch.
C12_LazyUntilRead ==
    [][/\ (steps' # steps /\ IsLazy) =>
          /\ (result'.key # KH /\ result'.op \notin {"clear", "reload"}) => IsLazy'
          /\ (result'.op = "getitem" /\ result'.proxy = Root /\ result'.key = KH
              /\ result'.status = "ok") =>
                 /\ result'.reads = 1 /\ result'.writes = 0
                 /\ result'.value = Cast(RemoteAt(KH), Annot(KH))
                 /\ local' = [local EXCEPT ![KH] = result'.value]
                 /\ remote' = remote
       /\ (/\ steps' # steps /\ ~IsLazy /\ KH \in DOMAIN local
           /\ result'.op = "getitem" /\ result'.proxy = Root /\ result'.key = KH) =>
              /\ result'.reads = 0 /\ result'.writes = 0
              /\ result'.value = local[KH]
              /\ local' = local]_vars

\* C12 witness: the first read of h fetched 3 and stored it, and a second read
\* returned it without a fetch
C12_Witness ==
    /\ result.op = "getitem" /\ result.proxy = Root /\ result.key = KH
    /\ result.status = "ok" /\ result.reads = 0
    /\ result.value = IntV(3) /\ local[KH] = IntV(3)

\* C13: a structural mutation of the sequence-like proxy changes the local
\* storage only when its remote operation has been acknowledged, also when the
\* operation raises.
C13_RemoteBeforeLocal ==
    [][(steps' # steps /\ result'.proxy = Lst /\ local' # local) =>
          result'.writes = 1]_vars

(***************************************************************************)
(* Properties of the watcher's resume state                                *)
(***************************************************************************)
\* C14: a transport error of the feed, met while pulling an event or while
\* reopening the feed, never leaves next(): a call of next() ends with an
\* event, with the end of the stream, with the terminal too-many-errors
\* condition, or goes on with the reopened feed.
C14_ErrorsContained ==
    \A w \in Watchers : hist[w].out # "raised"

\* the step delivers an event to w (the event hist'[w].last)
Delivered(w) ==
    /\ hist'[w].out = "event"
    /\ stream[w].alive /\ stream'[w].pos = stream[w].pos + 1

NextOutcomes == {"stop", "event", "fatal", "raised", "reopened"}

\* C16: while the watcher is closed its stream is closed, no call delivers an
\* event and next() ends with the end of the stream; resume() reopens the
\* feed from the last known token and clears the closed flag, and the next()
\* that follows delivers the event at the reopened position unless it meets
\* a transport error.
C16_CloseThenResume ==
    [][\A w \in Watchers :
          /\ closed[w] =>
                /\ ~stream[w].alive /\ ~Delivered(w)
                /\ hist'[w].out \in NextOutcomes => hist'[w].out = "stop"
          /\ (hist'[w].out = "resumed" /\ hist[w].out # "resumed") =>
                /\ stream'[w] = Opened(wstate.token)
                /\ ~closed'[w]
          /\ (/\ hist[w].out = "resumed" /\ hist'[w].out \in NextOutcomes
              /\ ~hist'[w].met) =>
                /\ Delivered(w)
                /\ hist'[w].last = stream[w].pos]_vars

\* C16 witness: a watcher that was closed, whose next() signalled the end of
\* the stream, has been resumed from token 1 and its next() has delivered
\* event 2
C16_Witness ==
    \E w \in Watchers :
        /\ hist[w].ended /\ ~closed[w]
        /\ hist[w].out = "event" /\ hist[w].base = 1 /\ hist[w].sess = 2
        /\ wstate.token = 2

\* C17: the errors met before the watcher reopened the feed and delivered an
\* event do not count towards a later terminal condition: when a watcher
\* raises it, and no other watcher has met an error or delivered an event, at
\* least ErrorLimit errors have been met since its last delivered event.
C17_CountResetOnReconnect ==
    \A w \in Watchers :
        (/\ hist[w].out = "fatal"
         /\ \A v \in Watchers \ {w} : hist[v].fresh = 0 /\ hist[v].top = 0) =>
            hist[w].fresh >= ErrorLimit

\* C18: the resume state belongs to one watcher: a watcher that reopens its
\* feed does so from a token of an event it has delivered itself (or from
\* none), never from a token obtained by another watcher.
C18_StatePerWatcher ==
    [][\A w \in Watchers :
          (hist'[w].out = "reopened" /\ hist[w].out # "reopened") =>
              hist'[w].base <= hist[w].top]_vars

(***************************************************************************)
(* Properties of the callbacks                                             *)
(***************************************************************************)
\* proxy p has registered h for kind, and on() had returned when the feed was
\* shorter than i
OnReturned(p, kind, h, i) ==
    \E j \in 1..Len(callbacks[kind]) :
        /\ callbacks[kind][j].h = h /\ callbacks[kind][j].owner = p
        /\ callbacks[kind][j].at < i

\* the event at index i is an update of the record of proxy p that sets a
\* path under the proxy
InScope(p, i) ==
    /\ i <= Len(feed) /\ feed[i].kind = "update" /\ feed[i].id = Id
    /\ \E j \in 1..Len(feed[i].updated) : Under(feed[i].updated[j][1], Field(p))

\* C19: on(kind, h) sets the live-sync flag of the owner, and every event of
\* the kind that occurs in the watched scope after on() has returned is
\* eventually followed by a dispatch of h by the owner's loop, unless the
\* caller has turned live sync off; checked for the update kind and the
\* record's proxy, under fair scheduling of the loop.
C19_CallbackEventually ==
    \A h \in Handlers, i \in 1..MaxFeed :
        (OnReturned(Root, "update", h, i) /\ InScope(Root, i))
            ~> (<<i, h>> \in loop[Root].served \/ ~realtime[Root])

\* C20: when a live loop takes an event and its built-in reaction raises no
\* cast or fetch error, the callbacks registered for the event's kind are
\* all dispatched, in the order of their registration; so for every kind,
\* drop and dropDatabase included.
C20_DispatchAll ==
    [][\A p \in Dicts :
          (/\ Took(p) /\ realtime[p]
           /\ feed[loop[p].pos].kind = "update" => loop'[p].st = "running") =>
              loop'[p].sent = Registered(feed[loop[p].pos].kind, 1)]_vars

\* thread t takes an event from its watcher in the step
TakesEvent(t) == loop[t].st # "starting" /\ loop'[t].pos = loop[t].pos + 1

\* a blocking callable called by thread t has not returned
InCall(t) == \E run \in loop[t].active : run.blocking

\* C21: a blocking callback runs inside the loop: while it has not returned
\* the loop is in the call and takes no event from its watcher; callbacks
\* that are not blocking are started apart and never hold the loop, which is
\* in a call only when a blocking callback has not returned.
C21_BlockingInLoop ==
    [][\A t \in Threads :
          /\ InCall(t) => (loop[t].st = "calling" /\ ~TakesEvent(t))
          /\ loop[t].st = "calling" => InCall(t)]_vars

\* C21 witness: a blocking callback is running for the event the loop took
\* last, and the next event waits in the feed
C21_Witness ==
    \E t \in Threads :
        /\ loop[t].st = "calling" /\ loop[t].pos <= Len(feed)
        /\ \E run \in loop[t].active : run.blocking /\ run.i = loop[t].pos - 1

\* proxy p has registered h, for some kind
RegisteredBy(p, h) ==
    \E kind \in Kinds : \E j \in 1..Len(callbacks[kind]) :
        callbacks[kind][j].h = h /\ callbacks[kind][j].owner = p

\* C22: the registries belong to their owners: a loop dispatches a callback
\* only if the callback was registered with on() on the loop's own object.
C22_RegistryPerOwner ==
    \A t \in Threads : \A d \in loop[t].served : RegisteredBy(ProxyOf(t), d[2])

\* thread t is in its loop over the watcher's events, and will apply and
\* dispatch the next one
Consuming(t) == loop[t].st \in {"running", "calling"} /\ realtime[ProxyOf(t)]

\* C23: whatever the caller does with __realtime__, on() and reload(), at
\* most one live-sync loop of an object consumes events at any time.
C23_OneLoopPerObject ==
    \A p \in Dicts : ~(Consuming(p) /\ Consuming(Twin(p)))

\* C24: when the loop of a live proxy at path p takes an update event of the
\* proxy's record whose removed fields hold p.k (k for the record's proxy)
\* and its reaction raises nothing, key k is no longer in the proxy's storage
\* and no remote write has been made.
C24_LoopAppliesRemoval ==
    [][\A p \in Dicts : \A k \in {KN, KS, KH} :
          LET ev == feed[loop[p].pos] IN
          (/\ Took(p) /\ realtime[p] /\ Exists(p)
           /\ ev.kind = "update" /\ ev.id = Id
           /\ \E j \in 1..Len(ev.removed) : ev.removed[j] = KeyPath(Field(p), k)
           /\ loop'[p].st # "dead") =>
              /\ k \notin DOMAIN DictSto(p)'
              /\ remote' = remote]_vars

(***************************************************************************)
(* Properties of construction and of the structural mutations              *)
(***************************************************************************)
\* C25: when the record's proxy is made and the record lacks a field that the
\* class declares with a default, the storage holds the cast default and the
\* remote record holds it as well.
C25_DefaultWrittenBack ==
    [][\A k \in DOMAIN Defaults :
          (/\ steps' # steps /\ result'.op = "build" /\ result'.status = "ok"
           /\ remote[Id].t = "map" /\ k \notin DOMAIN remote[Id].v) =>
              /\ k \in DOMAIN local' /\ local'[k] = Cast(Defaults[k], Annot(k))
              /\ remote'[Id].t = "map" /\ k \in DOMAIN remote'[Id].v
              /\ remote'[Id].v[k] = Enc(Defaults[k])]_vars

\* the value is a native map or sequence, bound to no field path
Native(v) == v.t \in {"map", "list"}

\* C26: after update() or setdefault() has been acknowledged, the key it
\* concerns holds no native map or sequence in the committed storage: a
\* nested map or sequence is held as a proxy bound to its field path.
C26_NestedStoredAsProxy ==
    [][\A p \in Dicts :
          (/\ steps' # steps /\ result'.proxy = p
           /\ result'.op \in {"update", "setdefault"} /\ result'.status = "ok"
           /\ Exists(p)' /\ result'.key \in DOMAIN DictSto(p)') =>
              ~Native(DictSto(p)'[result'.key])]_vars

Outcome(status, value, sto) == [status |-> status, value |-> value, sto |-> sto]

\* what the method of a native list s does with index i and element o
NativeList(op, s, i, o) ==
    IF op = "append" THEN Outcome("ok", NoneV, Append(s, o))
    ELSE IF op = "extend" THEN Outcome("ok", NoneV, s \o <<o, o>>)
    ELSE IF op = "insert" THEN Outcome("ok", NoneV, SeqInsert(s, i, o))
    ELSE IF op = "pop"
    THEN IF i < Len(s) THEN Outcome("ok", s[i + 1], SeqPop(s, i))
         ELSE Outcome("IndexError", NoneV, s)
    ELSE IF op = "remove"
    THEN IF Holds(s, o) THEN Outcome("ok", NoneV, RemoveFirst(s, o))
         ELSE Outcome("ValueError", NoneV, s)
    ELSE IF op = "reverse" THEN Outcome("ok", NoneV, SeqReverse(s))
    ELSE IF op = "sort" THEN Outcome("ok", NoneV, Sorted(s))
    ELSE Outcome("ok", NoneV, <<>>)

ListMethods == {"append", "extend", "insert", "pop", "remove", "reverse", "sort", "clear"}

\* C28: a method of the sequence-like proxy whose remote write is
\* acknowledged ends as the same method of a native list holding the same
\* elements does (same return value or same error), and leaves the proxy
\* equal to that native list.
C28_ListRefinesNative ==
    [][(/\ steps' # steps /\ ListExists /\ result'.proxy = Lst
        /\ result'.op \in ListMethods /\ result'.status # "RemoteError") =>
          \E i \in 0..MaxLen, o \in Elems :
             /\ result'.key # <<>> => result'.key = IntToStr(i)
             /\ result'.arg # NoneV => result'.arg = o
             /\ ListExists'
             /\ NativeList(result'.op, ListSto, i, o)
                   = Outcome(result'.status, result'.value, ListSto')]_vars

\* the contents of a map-like proxy as its reads give them: a lazy field
\* counts for the value a read of it fetches
Contents(p) ==
    [k \in DOMAIN DictSto(p) |->
        IF DictSto(p)[k].t = "lazy" THEN Cast(LazyFetch(p, k), Annot(k))
        ELSE DictSto(p)[k]]

\* what the method of a native dict s does with key k, value v and, for pop,
\* a default when d
NativeDict(op, s, k, v, d) ==
    IF op = "getitem" THEN Outcome("ok", s[k], s)
    ELSE IF op \in {"pop", "popitem"}
    THEN IF k \in DOMAIN s THEN Outcome("ok", s[k], Unbind(s, k))
         ELSE IF d /\ op = "pop" THEN Outcome("ok", NoneV, s)
         ELSE Outcome("KeyError", NoneV, s)
    ELSE IF op = "setdefault"
    THEN IF k \in DOMAIN s THEN Outcome("ok", s[k], s)
         ELSE Outcome("ok", v, Bind(s, k, v))
    ELSE IF op = "update" THEN Outcome("ok", NoneV, Bind(s, k, v))
    ELSE Outcome("ok", NoneV, EmptyFn)

DictMethods == {"getitem", "pop", "popitem", "setdefault", "update", "clear"}

\* C29: a method of the map-like proxy whose remote calls succeed (get of a
\* key that is held, pop, popitem, setdefault, update, clear) ends as the
\* same method of a native dict holding the same contents does (same return
\* value or same error), and leaves the proxy's contents equal to that
\* native dict.
C29_DictRefinesNative ==
    [][\A p \in Dicts :
          (/\ steps' # steps /\ Exists(p) /\ result'.proxy = p
           /\ result'.op \in DictMethods
           /\ result'.status \notin {"RemoteError", "Error"}
           /\ result'.op = "getitem" => result'.key \in DOMAIN DictSto(p)) =>
             \E v \in ValsOf(result'.key), d \in BOOLEAN :
                /\ Exists(p)'
                /\ NativeDict(result'.op, Contents(p), result'.key, v, d)
                      = Outcome(result'.status, result'.value, Contents(p)')]_vars

(***************************************************************************)
(* Properties of the value codec                                           *)
(***************************************************************************)
\* C30: the wire encoding of a primitive value, cast back with the type of
\* the value as the declared type, is the value again.
C30_PrimitiveRoundTrip ==
    (result.op = "cast" /\ result.type = TypeOf(result.arg)) =>
        (result.status = "ok" /\ result.value = result.arg)

(***************************************************************************)
(* Properties of the loop under redelivery and against local writes        *)
(***************************************************************************)
\* both passes of the loop over one update event: the storage they leave
\* (the pass over the removed fields is skipped when the first one raised)
ApplyEvent(p, sto, ev, ok) ==
    LET up == ApplyUpdated(p, sto, ev.updated, 1, ok)
    IN  IF up.ok THEN ApplyRemoved(p, up.sto, ev.removed, 1) ELSE up.sto

\* the loop of thread t takes an update event in this step
AppliesUpdate(t) ==
    /\ loop[t].st = "running" /\ loop'[t].pos = loop[t].pos + 1
    /\ realtime[ProxyOf(t)]
    /\ feed[loop[t].pos].kind = "update"

\* C31: when the loop has applied an update event, applying the same event
\* once more leaves the storage as it is, and the step of the loop writes
\* nothing to the remote store.
C31_RedeliveryIdempotent ==
    [][\A t \in Threads :
          (AppliesUpdate(t) /\ Exists(ProxyOf(t))') =>
             /\ remote' = remote
             /\ (ApplyEvent(ProxyOf(t), DictSto(ProxyOf(t)),
                            feed[loop[t].pos - 1], TRUE) = DictSto(ProxyOf(t)))']_vars

\* the loop has applied an update event that changed the storage, then an
\* event that removed a key
C31_Witness ==
    \E t \in Threads :
       /\ loop[t].pos > 2 /\ loop[t].st = "running"
       /\ feed[loop[t].pos - 1].kind = "update" /\ feed[loop[t].pos - 2].kind = "update"
       /\ local # FetchDoc(InitDoc, LazyFields)

(***************************************************************************)
(* Further properties of the proxies' writes                               *)
(***************************************************************************)
\* x is held more than once
HoldsTwice(s, x) == \E i, j \in 1..Len(s) : i # j /\ s[i] = x /\ s[j] = x

\* C32: remove(x) on a sequence-like proxy that mirrors the remote array and
\* holds x more than once, with the remote write acknowledged, removes the
\* first occurrence only, locally and remotely: the local storage is the
\* list without its first x, and the remote array is equal to it.
C32_RemoveFirstOnly ==
    [][(/\ steps' # steps /\ ListExists /\ result'.proxy = Lst /\ result'.op = "remove"
        /\ result'.status # "RemoteError"
        /\ HoldsTwice(ListSto, result'.arg)
        /\ RemoteOf(ListField) = Enc(ListV(ListSto))) =>
          /\ ListExists'
          /\ ListSto' = RemoveFirst(ListSto, result'.arg)
          /\ RemoteOf(ListField)' = Enc(ListV(ListSto'))]_vars

\* the field path of the $set / $unset a key write or a key delete sends
SentPath(p, k) == Format(Field(p), k)

\* C33: the path sent by a write or a delete of key k on a proxy at path p
\* is p.k when p is not empty and k when p is the empty path of the whole
\* record; it never begins with a dot.
C33_PathOfKey ==
    result.op \in {"setitem", "delitem"} =>
        /\ Head(SentPath(result.proxy, result.key)) # Dot
        /\ SentPath(result.proxy, result.key)
             = IF Field(result.proxy) = <<>> THEN result.key
               ELSE Field(result.proxy) \o <<Dot>> \o result.key

\* the path of key k of the proxy in the record
PathOf(p, k) == IF Field(p) = <<>> THEN k ELSE Format(Field(p), k)

\* C34: pop, popitem, setdefault or update of another key on a map-like
\* proxy that holds a field still lazy leaves the remote value of the lazy
\* field as it was.
C34_LazyFieldKept ==
    [][\A p \in Dicts : \A k \in LazyOf(p) :
          (/\ steps' # steps /\ Exists(p) /\ result'.proxy = p
           /\ result'.op \in {"pop", "popitem", "setdefault", "update"}
           /\ result'.key # k
           /\ k \in DOMAIN DictSto(p) /\ DictSto(p)[k].t = "lazy") =>
             RemoteAt(PathOf(p, k))' = RemoteAt(PathOf(p, k))]_vars

(***************************************************************************)
(* Properties of the life of the loop                                      *)
(***************************************************************************)
\* C35: while __realtime__ of a proxy is set, a thread of its loop is alive
\* (started, running or inside a callback): a loop that has ended does not
\* leave the flag set.
C35_RealtimeHasLoop ==
    \A p \in Dicts : realtime[p] => (Alive(p) \/ Alive(Twin(p)))

\* the event at place j of the feed is the one of the caller's last key write
OwnWrite(j) ==
    /\ j \in 1..Len(feed)
    /\ feed[j].kind = "update" /\ feed[j].id = Id
    /\ feed[j].updated = << <<Format(Field(result.proxy), result.key), Enc(result.value)>> >>

\* C36: with live sync on, after a key write of v to k has returned, the loop
\* taking an event older than the write does not replace the value of k:
\* the storage still holds the cast of v.
C36_NoOlderValue ==
    [][\A p \in Dicts :
          (/\ result.op = "setitem" /\ result.status = "ok" /\ result.proxy = p
           /\ Took(p) /\ realtime[p]
           /\ \E j \in (loop[p].pos + 1)..Len(feed) : OwnWrite(j)) =>
             /\ Exists(p)'
             /\ result.key \in DOMAIN DictSto(p)'
             /\ DictSto(p)'[result.key] = result.value]_vars

\* C37: a delete of a key the local storage does not hold raises KeyError
\* and makes no remote write: the remote record is as it was.
C37_DeleteAbsentNoWrite ==
    [][\A p \in Dicts :
          (/\ steps' # steps /\ Exists(p) /\ result'.proxy = p /\ result'.op = "delitem"
           /\ result'.key \notin DOMAIN DictSto(p)) =>
             /\ result'.status = "KeyError"
             /\ result'.writes = 0
             /\ remote' = remote]_vars

(***************************************************************************)
(* Properties of to_dict                                                   *)
(***************************************************************************)
\* C38: to_dict, whatever exclude and camelCase, leaves the local storage
\* and the remote record as they were.
C38_ToDictReadOnly ==
    [][(steps' # steps /\ result'.op = "to_dict") =>
          (local' = local /\ remote' = remote)]_vars

(***************************************************************************)
(* Further properties of the watcher                                       *)
(***************************************************************************)
\* C39: after an event is returned to the caller, by next() or by
\* try_next(), the stored resume token is the position of that event.
C39_TokenOfReturnedEvent ==
    [][\A w \in Watchers : Delivered(w) => wstate'.token = hist'[w].last]_vars

\* C40: next() does not reopen the feed once the count of errors has reached
\* error_limit: whenever a call of next() reopens the feed, the count, the
\* error just met included, is below error_limit.
C40_NoReopenAtLimit ==
    [][\A w \in Watchers :
          (hist'[w] # hist[w] /\ hist'[w].out = "reopened") =>
              wstate'.count < result.error_limit]_vars

====
